---- MODULE Spec2Model ----
(***************************************************************************)
(* Verification model of the asynchronous pipeline execution engine of     *)
(* psm-tool: the job manager (backend/dist/utils/jobManager.js), the       *)
(* interview-analyzer and drilldown pipeline executors, the chat retry     *)
(* loop and the transcript chunking loop.                                  *)
(*                                                                         *)
(* Three specifications share the variables below:                         *)
(*   Spec      - the job registry driven by arbitrary runners              *)
(*   SpecPipe  - one job running a pipeline executor, with cancellation    *)
(*   SpecChunk - processLargeTranscriptWithOverlap on bounded inputs       *)
(***************************************************************************)
EXTENDS Integers, Sequences, FiniteSets, TLC

(***************************************************************************)
(* Bounds of the model.                                                    *)
(***************************************************************************)
MaxJobs == 1
MaxTicks == 2
MaxCancels == 2

JobIds == 1..MaxJobs

(***************************************************************************)
(* Job manager: constants and record shape.                                *)
(***************************************************************************)
JOB_TTL_MS == 1000 * 60 * 30

\* `undefined` in a field that holds an object, and in the string field error
Undef == [undefined |-> TRUE]

UndefStr == "undefined"

TerminalStates == {"success", "error", "cancelled"}

isTerminalState(state) == state \in TerminalStates

CancelledMessage == "Cancelled by user."

\* the record createJob stores under a fresh id
InitialJob(t) ==
  [state |-> "queued", message |-> "Queued...", result |-> Undef,
   partialResult |-> Undef, progress |-> Undef, error |-> UndefStr,
   cancelRequested |-> FALSE, createdAt |-> t, updatedAt |-> t]

\* placeholder for an id that is not in the Map
BlankJob ==
  [state |-> "absent", message |-> "", result |-> Undef,
   partialResult |-> Undef, progress |-> Undef, error |-> UndefStr,
   cancelRequested |-> FALSE, createdAt |-> 0, updatedAt |-> 0]

\* values a runner passes to update / settles with
Messages == {"m1"}
PartialResults == {[rows |-> <<1>>, savedToSheet |-> FALSE]}
Progresses == {[percent |-> 50]}
Results == {[rows |-> <<1, 2>>, savedToSheet |-> TRUE]}
Errors == {"Error: boom"}

NoPayload == [present |-> FALSE, partialResult |-> Undef, hasProgress |-> FALSE, progress |-> Undef]

Payloads ==
  {NoPayload} \cup
  [present : {TRUE}, partialResult : PartialResults,
   hasProgress : {FALSE}, progress : {Undef}] \cup
  [present : {TRUE}, partialResult : {Undef},
   hasProgress : {TRUE}, progress : Progresses]

VARIABLES
  jobs,        \* id -> job record (BlankJob when the id is not in the Map)
  registry,    \* ids currently in the Map
  nextId,      \* next fresh id (randomUUID)
  creating,    \* id whose createJob call is between jobs.set and the return, or 0
  runner,      \* id -> "none" | "pending" | "settled": the runner promise
  now,         \* Date.now()
  ticks,       \* number of clock advances so far
  lastCall,    \* the last call into the manager and the record it returned or left
  cancelRets,  \* id -> snapshots returned by the cancelJob calls on id, in order
  cancelAsked, \* ids on which cancelJob was called before their runner settled
  pipe,        \* the pipeline executor run by the job of SpecPipe
  sheet,       \* rows appended to the spreadsheet sink
  chunk,       \* the chunking loop of SpecChunk
  chat,        \* one chat call of SpecChat: the retry loop and its requests
  calc,        \* the function calls of SpecRows, SpecEnum, SpecBackoff, SpecRotation
               \* and the workers of SpecWorkers
  poll         \* one waitForJobCompletion call of SpecPoll

jobVars == <<jobs, registry, nextId, creating, runner, now, ticks, lastCall, cancelRets, cancelAsked>>

vars == <<jobs, registry, nextId, creating, runner, now, ticks, lastCall, cancelRets,
          cancelAsked, pipe, sheet, chunk, chat, calc, poll>>

\* the pipeline and the chunking loop are not part of Spec
NoPipe == [wf |-> "none", pc |-> "none"]

\* positions of a pipeline that are left in the same turn of the event loop
SyncPcs == {"start", "rowloop", "postdl"}

NoChunk == [pc |-> "none"]

NoChat == [pc |-> "none"]

NoCalc == [fn |-> "none"]

NoPoll == [pc |-> "none"]

NoCall == [op |-> "none", id |-> 0, found |-> FALSE, snap |-> BlankJob]

(***************************************************************************)
(* cleanupExpiredJobs: the ids that survive a cleanup at time t.           *)
(***************************************************************************)
Expired(reg, js, t) == {id \in reg : t - js[id].updatedAt > JOB_TTL_MS}

\* a cleanup that deletes nothing
cleanupExpiredJobsNever(reg, js, t) == reg

cleanupExpiredJobs(reg, js, t) == reg \ Expired(reg, js, t)

CleanedJobs(reg, js, t) ==
  [id \in DOMAIN js |-> IF id \in Expired(reg, js, t) THEN BlankJob ELSE js[id]]

(***************************************************************************)
(* update(message, payload) of one job, as a function on its record.       *)
(***************************************************************************)
\* update without the guard on the cancelled state
updateNoCancelGuard(rec, message, payload, t) ==
  [rec EXCEPT
    !.message = message,
    !.partialResult = IF payload.present /\ payload.partialResult # Undef
                      THEN payload.partialResult ELSE @,
    !.progress = IF payload.present /\ payload.hasProgress
                 THEN payload.progress ELSE Undef,
    !.updatedAt = t,
    !.state = IF @ \in {"queued", "cancelled"} THEN "running" ELSE @]

update(rec, message, payload, t) ==
  IF rec.state = "cancelled" THEN rec
  ELSE [rec EXCEPT
         !.message = message,
         !.partialResult = IF payload.present /\ payload.partialResult # Undef
                           THEN payload.partialResult ELSE @,
         !.progress = IF payload.present /\ payload.hasProgress
                      THEN payload.progress ELSE Undef,
         !.updatedAt = t,
         !.state = IF @ = "queued" THEN "running" ELSE @]

\* control.isCancelled()
isCancelled(reg, js, id) ==
  id \in reg /\ (js[id].cancelRequested \/ js[id].state = "cancelled")

MarkCancelled(rec, t) ==
  [rec EXCEPT !.state = "cancelled", !.message = CancelledMessage,
              !.progress = Undef, !.updatedAt = t]

\* the synchronous head of the async block of createJob
StartRecord(rec, t) ==
  IF rec.cancelRequested THEN MarkCancelled(rec, t)
  ELSE [rec EXCEPT !.state = "running", !.message = "Started...",
                   !.progress = Undef, !.updatedAt = t]

\* success branch taken without looking at the cancellation
OnResolvedNoCancelCheck(rec, result, t) ==
  [rec EXCEPT !.state = "success", !.result = result,
              !.partialResult = result, !.message = "Completed.",
              !.progress = Undef, !.updatedAt = t]

\* continuation after `await runner(...)` resolved with result
OnResolved(rec, result, t) ==
  IF rec.cancelRequested \/ rec.state = "cancelled" THEN MarkCancelled(rec, t)
  ELSE [rec EXCEPT !.state = "success", !.result = result,
                   !.partialResult = result, !.message = "Completed.",
                   !.progress = Undef, !.updatedAt = t]

\* catch block that reclassifies only a JobCancelledError
OnRejectedNoCancelCheck(rec, err, isJce, t) ==
  IF isJce THEN MarkCancelled(rec, t)
  ELSE [rec EXCEPT !.state = "error", !.error = err, !.message = err,
                   !.progress = Undef, !.updatedAt = t]

\* catch block that records a fixed message instead of the failure
OnRejectedFixedMessage(rec, err, isJce, t) ==
  IF rec.cancelRequested \/ rec.state = "cancelled" \/ isJce THEN MarkCancelled(rec, t)
  ELSE [rec EXCEPT !.state = "error", !.error = err, !.message = "Failed.",
                   !.progress = Undef, !.updatedAt = t]

\* catch block: the runner rejected; isJce says the error is a JobCancelledError
OnRejected(rec, err, isJce, t) ==
  IF rec.cancelRequested \/ rec.state = "cancelled" \/ isJce THEN MarkCancelled(rec, t)
  ELSE [rec EXCEPT !.state = "error", !.error = err, !.message = err,
                   !.progress = Undef, !.updatedAt = t]

\* a cancelJob that only sets the flag and leaves the state to the runner
CancelRecordFlagOnly(rec, t) ==
  IF isTerminalState(rec.state) THEN rec
  ELSE [rec EXCEPT !.cancelRequested = TRUE, !.updatedAt = t]

\* cancelJob on a record that is in the Map
CancelRecord(rec, t) ==
  IF isTerminalState(rec.state) THEN rec
  ELSE [rec EXCEPT !.cancelRequested = TRUE, !.state = "cancelled",
                   !.message = CancelledMessage, !.progress = Undef,
                   !.updatedAt = t]

(***************************************************************************)
(* Actions of the job manager.                                             *)
(***************************************************************************)
Idle == creating = 0 /\ pipe.pc \notin SyncPcs

\* createJob up to jobs.set(id, initial)
CreateJob ==
  /\ Idle
  /\ nextId <= MaxJobs
  /\ LET reg == cleanupExpiredJobs(registry, jobs, now)
         js == CleanedJobs(registry, jobs, now)
     IN /\ registry' = reg \cup {nextId}
        /\ jobs' = [js EXCEPT ![nextId] = InitialJob(now)]
  /\ creating' = nextId
  /\ nextId' = nextId + 1
  /\ UNCHANGED <<runner, now, ticks, lastCall, cancelRets, cancelAsked, pipe, sheet, chunk, chat, calc, poll>>

\* createJob from the async block to `return initial`: the block runs
\* synchronously up to the await, so the runner is started before the return
StartJob ==
  /\ creating # 0
  /\ jobs' = [jobs EXCEPT ![creating] = StartRecord(@, now)]
  /\ runner' = [runner EXCEPT ![creating] = "pending"]
  /\ lastCall' = [op |-> "createJob", id |-> creating, found |-> TRUE,
                  snap |-> jobs'[creating]]
  /\ creating' = 0
  /\ pipe' = IF pipe.wf = "none" THEN pipe ELSE [pipe EXCEPT !.pc = "start"]
  /\ UNCHANGED <<registry, nextId, now, ticks, cancelRets, cancelAsked, sheet, chunk, chat, calc, poll>>

getJob(id) ==
  /\ Idle
  /\ id < nextId
  /\ LET reg == cleanupExpiredJobs(registry, jobs, now)
         js == CleanedJobs(registry, jobs, now)
     IN /\ registry' = reg
        /\ jobs' = js
        /\ lastCall' = [op |-> "getJob", id |-> id, found |-> id \in reg,
                        snap |-> js[id]]
  /\ UNCHANGED <<nextId, creating, runner, now, ticks, cancelRets, cancelAsked, pipe, sheet, chunk, chat, calc, poll>>

cancelJob(id) ==
  /\ Idle
  /\ id < nextId
  /\ Len(cancelRets[id]) < MaxCancels
  /\ LET reg == cleanupExpiredJobs(registry, jobs, now)
         js == CleanedJobs(registry, jobs, now)
         rec == IF id \in reg THEN CancelRecord(js[id], now) ELSE js[id]
     IN /\ registry' = reg
        /\ jobs' = [js EXCEPT ![id] = rec]
        /\ lastCall' = [op |-> "cancelJob", id |-> id, found |-> id \in reg,
                        snap |-> rec]
        /\ cancelRets' = [cancelRets EXCEPT ![id] =
                            IF id \in reg THEN Append(@, rec) ELSE @]
        /\ cancelAsked' = IF id \in reg /\ runner[id] = "pending"
                          THEN cancelAsked \cup {id} ELSE cancelAsked
  /\ UNCHANGED <<nextId, creating, runner, now, ticks, pipe, sheet, chunk, chat, calc, poll>>

\* the runner calls update(message, payload)
RunnerUpdate(id, message, payload) ==
  /\ Idle
  /\ runner[id] = "pending"
  /\ jobs' = [jobs EXCEPT ![id] = IF id \in registry
                                  THEN update(@, message, payload, now) ELSE @]
  /\ lastCall' = [op |-> "update", id |-> id, found |-> id \in registry,
                  snap |-> jobs'[id]]
  /\ UNCHANGED <<registry, nextId, creating, runner, now, ticks, cancelRets, cancelAsked,
                 pipe, sheet, chunk, chat, calc, poll>>

\* a completion handler that writes the outcome to every record of the Map
RunnerResolveEvery(id, result) ==
  /\ Idle
  /\ runner[id] = "pending"
  /\ jobs' = [j \in DOMAIN jobs |-> IF j \in registry
                                    THEN OnResolved(jobs[j], result, now) ELSE jobs[j]]
  /\ runner' = [runner EXCEPT ![id] = "settled"]
  /\ UNCHANGED <<registry, nextId, creating, now, ticks, lastCall, cancelRets, cancelAsked,
                 pipe, sheet, chunk, chat, calc, poll>>

\* the runner promise resolves
RunnerResolve(id, result) ==
  /\ Idle
  /\ runner[id] = "pending"
  /\ jobs' = [jobs EXCEPT ![id] = IF id \in registry
                                  THEN OnResolved(@, result, now) ELSE @]
  /\ runner' = [runner EXCEPT ![id] = "settled"]
  /\ UNCHANGED <<registry, nextId, creating, now, ticks, lastCall, cancelRets, cancelAsked,
                 pipe, sheet, chunk, chat, calc, poll>>

\* the runner promise rejects with an ordinary error
RunnerReject(id, err) ==
  /\ Idle
  /\ runner[id] = "pending"
  /\ jobs' = [jobs EXCEPT ![id] = IF id \in registry
                                  THEN OnRejected(@, err, FALSE, now) ELSE @]
  /\ runner' = [runner EXCEPT ![id] = "settled"]
  /\ UNCHANGED <<registry, nextId, creating, now, ticks, lastCall, cancelRets, cancelAsked,
                 pipe, sheet, chunk, chat, calc, poll>>

\* control.throwIfCancelled() throws and the JobCancelledError escapes the runner
RunnerThrowIfCancelled(id) ==
  /\ Idle
  /\ runner[id] = "pending"
  /\ isCancelled(registry, jobs, id)
  /\ jobs' = [jobs EXCEPT ![id] = OnRejected(@, "JobCancelledError: Cancelled by user.", TRUE, now)]
  /\ runner' = [runner EXCEPT ![id] = "settled"]
  /\ UNCHANGED <<registry, nextId, creating, now, ticks, lastCall, cancelRets, cancelAsked,
                 pipe, sheet, chunk, chat, calc, poll>>

\* time passes between two turns of the event loop
Tick ==
  /\ Idle
  /\ ticks < MaxTicks
  /\ \E d \in {1, JOB_TTL_MS} : now' = now + d
  /\ ticks' = ticks + 1
  /\ UNCHANGED <<jobs, registry, nextId, creating, runner, lastCall, cancelRets, cancelAsked,
                 pipe, sheet, chunk, chat, calc, poll>>

Init ==
  /\ jobs = [id \in JobIds |-> BlankJob]
  /\ poll = NoPoll
  /\ registry = {}
  /\ nextId = 1
  /\ creating = 0
  /\ runner = [id \in JobIds |-> "none"]
  /\ now = 0
  /\ ticks = 0
  /\ lastCall = NoCall
  /\ cancelRets = [id \in JobIds |-> <<>>]
  /\ cancelAsked = {}
  /\ pipe = NoPipe
  /\ sheet = <<>>
  /\ chunk = NoChunk
  /\ chat = NoChat
  /\ calc = NoCalc

Next ==
  \/ CreateJob
  \/ StartJob
  \/ \E id \in JobIds : getJob(id)
  \/ \E id \in JobIds : cancelJob(id)
  \/ \E id \in JobIds, m \in Messages, p \in Payloads : RunnerUpdate(id, m, p)
  \/ \E id \in JobIds, r \in Results : RunnerResolve(id, r)
  \/ \E id \in JobIds, e \in Errors : RunnerReject(id, e)
  \/ \E id \in JobIds : RunnerThrowIfCancelled(id)
  \/ Tick

Spec == Init /\ [][Next]_vars

(***************************************************************************)
(* Claims about the job manager, checked under Spec.                       *)
(***************************************************************************)
AllowedMove(s, t) ==
  \/ s = t
  \/ s = "queued" /\ t = "running"
  \/ s = "running" /\ t \in TerminalStates

\* C1: while a job is in the registry its state only moves along
\* queued -> running -> {success, error, cancelled}; it never moves backward
\* and never leaves a terminal state.
C1_StateMachine ==
  [][\A id \in JobIds :
       (id \in registry /\ id \in registry') =>
         AllowedMove(jobs[id].state, jobs'[id].state)]_vars

\* a job cancelled while its runner was pending, whose runner settled afterwards
C1_Witness ==
  \E id \in JobIds :
    /\ id \in registry /\ id \in cancelAsked
    /\ runner[id] = "settled"
    /\ jobs[id].state = "cancelled"

\* C2 (as claimed): once a job is in a terminal state no field of its record
\* changes any more.
C2_TerminalRecordFrozen ==
  [][\A id \in JobIds :
       (id \in registry /\ id \in registry' /\ isTerminalState(jobs[id].state)) =>
         jobs'[id] = jobs[id]]_vars

\* C3: a job on which cancelJob was called before its runner settled is in
\* state cancelled from then on, whatever the runner settles with, and its
\* result and error are never set.
C3_CancelWins ==
  \A id \in cancelAsked :
    id \in registry =>
      /\ jobs[id].state = "cancelled"
      /\ jobs[id].result = Undef
      /\ jobs[id].error = UndefStr

\* the runner settled after the cancel request
C3_Witness ==
  \E id \in cancelAsked :
    /\ id \in registry
    /\ runner[id] = "settled"
    /\ Len(cancelRets[id]) = 1

\* C4: an update call on a job whose state is cancelled leaves its record
\* (state, message, partialResult, progress, updatedAt) as it is.
C4_UpdateAfterCancelDropped ==
  [][\A id \in JobIds, m \in Messages, p \in Payloads :
       (RunnerUpdate(id, m, p) /\ jobs[id].state = "cancelled") =>
         jobs'[id] = jobs[id]]_vars

\* update was called on a cancelled job at a later time than the cancel
C4_Witness ==
  /\ lastCall.op = "update"
  /\ lastCall.found
  /\ lastCall.snap.state = "cancelled"
  /\ now > lastCall.snap.updatedAt

\* C5 (as claimed): the second cancelJob on a job returns a snapshot equal
\* field for field to the one the first call returned.
C5_CancelIdempotent ==
  \A id \in JobIds :
    Len(cancelRets[id]) = 2 => cancelRets[id][2] = cancelRets[id][1]

(***************************************************************************)
(* processLargeTranscriptWithOverlap (interviewService).  A transcript is  *)
(* its length and the set of positions that hold a newline; a window is    *)
(* the pair of slice bounds passed to transcript.slice(start, end).        *)
(***************************************************************************)
MaxLen == 4
MaxChunkSize == 3
MaxIter == MaxLen + 1

QNA_CHUNK_SIZE == 18000
QNA_CHUNK_OVERLAP == 1200
NewlineSnap == 200

Min(a, b) == IF a < b THEN a ELSE b

Max(a, b) == IF a < b THEN b ELSE a

\* transcript.indexOf("\n", from): -1 when there is none
indexOfNewline(newlines, from) ==
  LET after == {q \in newlines : q >= Max(from, 0)}
  IN IF after = {} THEN -1
     ELSE CHOOSE q \in after : \A r \in after : q <= r

\* window end that snaps to the next newline however far it is
windowEndAnyNewline(len, newlines, start, chunkSize) ==
  LET end == Min(start + chunkSize, len)
      nextNewline == indexOfNewline(newlines, end)
  IN IF end < len /\ nextNewline # -1 THEN nextNewline ELSE end

\* the window end computed at the top of an iteration
windowEnd(len, newlines, start, chunkSize) ==
  LET end == Min(start + chunkSize, len)
      nextNewline == indexOfNewline(newlines, end)
  IN IF end < len /\ nextNewline # -1 /\ nextNewline - end < NewlineSnap
     THEN nextNewline ELSE end

\* cursor that moves on by a whole chunk
advanceByChunkSize(start, chunkSize, overlap) == start + chunkSize

\* start += chunkSize - overlap
advance(start, chunkSize, overlap) == start + (chunkSize - overlap)

\* inputs: short transcripts with every chunkSize / overlap combination, and
\* the configured defaults on a 25,000 character transcript
ChunkInputs ==
  [len : 0..MaxLen, newlines : {{}} \cup {{q} : q \in 0..(MaxLen - 1)},
   chunkSize : 1..MaxChunkSize, overlap : 0..(MaxChunkSize + 1)]
  \cup
  [len : {25000}, newlines : {{}, {18100}, {18199}, {18200}, {18300}},
   chunkSize : {QNA_CHUNK_SIZE}, overlap : {QNA_CHUNK_OVERLAP}]

ChunkStart(in) ==
  [pc |-> IF 0 < in.len THEN "loop" ELSE "done",
   len |-> in.len, newlines |-> in.newlines,
   chunkSize |-> in.chunkSize, overlap |-> in.overlap,
   start |-> 0, windows |-> <<>>]

\* top of the while body up to the awaited extraction call
ChunkDispatch ==
  /\ chunk.pc = "loop"
  /\ Len(chunk.windows) < MaxIter
  /\ chunk' = [chunk EXCEPT
       !.pc = "await",
       !.windows = Append(@, <<chunk.start,
                     windowEnd(chunk.len, chunk.newlines, chunk.start, chunk.chunkSize)>>)]
  /\ UNCHANGED <<jobVars, pipe, sheet, chat, calc, poll>>

\* the call returned: advance the cursor, then break or test the loop condition
ChunkAdvance ==
  /\ chunk.pc = "await"
  /\ LET next == advance(chunk.start, chunk.chunkSize, chunk.overlap)
     IN chunk' = [chunk EXCEPT !.start = next,
                               !.pc = IF next >= chunk.len THEN "done" ELSE "loop"]
  /\ UNCHANGED <<jobVars, pipe, sheet, chat, calc, poll>>

ChunkInit ==
  /\ jobs = [id \in JobIds |-> BlankJob]
  /\ poll = NoPoll
  /\ registry = {}
  /\ nextId = 1
  /\ creating = 0
  /\ runner = [id \in JobIds |-> "none"]
  /\ now = 0
  /\ ticks = 0
  /\ lastCall = NoCall
  /\ cancelRets = [id \in JobIds |-> <<>>]
  /\ cancelAsked = {}
  /\ pipe = NoPipe
  /\ sheet = <<>>
  /\ chat = NoChat
  /\ calc = NoCalc
  /\ \E in \in ChunkInputs :
       /\ in.newlines \subseteq 0..(in.len - 1)
       /\ chunk = ChunkStart(in)

ChunkNext == ChunkDispatch \/ ChunkAdvance

SpecChunk == ChunkInit /\ [][ChunkNext]_vars

(***************************************************************************)
(* Claims about the chunking loop, checked under SpecChunk.                *)
(***************************************************************************)
\* C7 (as claimed): for every chunkSize and overlap, overlap >= chunkSize
\* included, the cursor strictly increases on every iteration of the loop.
C7_CursorStrictlyIncreases ==
  [][(chunk.pc = "await" /\ chunk'.pc # "await") => chunk'.start > chunk.start]_vars

(***************************************************************************)
(* Pipeline executors.  SpecPipe runs one job whose runner is               *)
(* runInterviewAnalyzer or analyzeDrilldownRows, as the routes wire them:  *)
(* onStatus = update, abortIfCancelled = control.throwIfCancelled.  A       *)
(* position (pipe.pc) is an awaited call; the code between two awaits runs *)
(* in one step.  A row of output is represented by the number of the input *)
(* item it came from.  One transcript window, one         *)
(* classification batch and one round per candidate are modelled.  The     *)
(* local files of the run are part of the executor's state: the video file *)
(* of each row with what it holds, the staging files written next to it,   *)
(* and the kinds of file removed so far.                                   *)
(***************************************************************************)
MaxRows == 2
MaxParts == 2

MISTRAL_CHAT_MAX_RETRIES_PER_KEY == 4

PipeJob == 1

Workflows == {"interview", "drilldown", "assignment", "uploader"}

PipeStart(wf, totalRows, apiKeyPresent, ffmpegInstalled) ==
  [wf |-> wf, pc |-> "none", totalRows |-> totalRows,
   apiKeyPresent |-> apiKeyPresent, ffmpegInstalled |-> ffmpegInstalled,
   rowIndex |-> 0, finalRows |-> <<>>, skippedCandidates |-> <<>>,
   attempt |-> 0, backoff |-> FALSE,
   outcome |-> [i \in 1..totalRows |-> "none"],
   itemWork |-> FALSE, dispatchedAfterCancel |-> FALSE,
   video |-> [i \in 1..totalRows |-> "absent"], files |-> {}, cleanupPaths |-> {},
   deleted |-> {}, sinkOk |-> FALSE, downloaded |-> {}, validated |-> {},
   extracted |-> {}, chunkIndex |-> 0, totalChunks |-> 0]

\* the effect of a pipeline step: the executor, the job record, the runner promise
Eff(pp, j, r) == [p |-> pp, j |-> j, r |-> r]

Here == Eff(pipe, jobs[PipeJob], runner[PipeJob])

\* control.isCancelled() on the record of the pipeline's job
Cancelled(j) == PipeJob \in registry /\ (j.cancelRequested \/ j.state = "cancelled")

\* onStatus(message, payload)
Say(e, message, payload) ==
  [e EXCEPT !.j = IF PipeJob \in registry THEN update(@, message, payload, now) ELSE @]

Partial(rows, saved) ==
  [present |-> TRUE, partialResult |-> [rows |-> rows, savedToSheet |-> saved],
   hasProgress |-> FALSE, progress |-> Undef]

Progress(percent) ==
  [present |-> TRUE, partialResult |-> Undef,
   hasProgress |-> TRUE, progress |-> [percent |-> percent]]

PartialProgress(rows, saved, percent) ==
  [present |-> TRUE, partialResult |-> [rows |-> rows, savedToSheet |-> saved],
   hasProgress |-> TRUE, progress |-> [percent |-> percent]]

\* an error escapes the runner: the catch block of createJob runs
Throw(e, err) ==
  Eff([e.p EXCEPT !.pc = "done"],
      IF PipeJob \in registry THEN OnRejected(e.j, err, FALSE, now) ELSE e.j,
      "settled")

\* throwIfCancelled() threw and nothing below createJob caught it
ThrowCancelled(e) ==
  Eff([e.p EXCEPT !.pc = "done"],
      IF PipeJob \in registry
      THEN OnRejected(e.j, "JobCancelledError: Cancelled by user.", TRUE, now) ELSE e.j,
      "settled")

\* a runner that throws when the sink write failed
ReturnThrowsUnsaved(e, rows, saved) ==
  IF ~saved THEN Throw(e, "Error: Failed to save rows to sheet.")
  ELSE Eff([e.p EXCEPT !.pc = "done"],
           IF PipeJob \in registry
           THEN OnResolved(e.j, [rows |-> rows, savedToSheet |-> saved], now) ELSE e.j,
           "settled")

\* the runner returns its result
Return(e, rows, saved) ==
  Eff([e.p EXCEPT !.pc = "done"],
      IF PipeJob \in registry
      THEN OnResolved(e.j, [rows |-> rows, savedToSheet |-> saved], now) ELSE e.j,
      "settled")

\* an awaited call is dispatched; itemWork says it is work on an input item
\* (download, transcription, LLM call) or the sink write
Dispatch(e, pc, itemWork) ==
  [e EXCEPT !.p.pc = pc,
            !.p.attempt = 0,
            !.p.backoff = FALSE,
            !.p.itemWork = @ \/ itemWork,
            !.p.dispatchedAfterCancel = @ \/ Cancelled(e.j)]

Apply(e) ==
  /\ pipe' = e.p
  /\ jobs' = [jobs EXCEPT ![PipeJob] = e.j]
  /\ runner' = [runner EXCEPT ![PipeJob] = e.r]

ToStr(n) == ToString(n)

Cand(e) == "Candidate " \o ToStr(e.p.rowIndex) \o "/" \o ToStr(e.p.totalRows)

\* Math.round((completed / total) * 100)
Percent(completed, total) ==
  IF total = 0 THEN 100 ELSE (200 * completed + total) \div (2 * total)

CompletedCandidates(pp) == Cardinality({i \in 1..pp.totalRows : pp.outcome[i] # "none"})

\* getRuntimeProviderConfig without the test of the API key
preconditionErrorNoKeyCheck(pp) ==
  IF pp.wf \in {"interview", "uploader"} /\ ~pp.ffmpegInstalled
  THEN "Error: FFmpeg is not installed."
  ELSE "none"

\* the pipeline-wide preconditions: the provider API key of the settings,
\* and ffmpeg/ffprobe for the interview analyzer and the video uploader
preconditionError(pp) ==
  IF ~pp.apiKeyPresent THEN "Error: Missing MISTRAL API key in settings."
  ELSE IF pp.wf \in {"interview", "uploader"} /\ ~pp.ffmpegInstalled
  THEN "Error: FFmpeg is not installed."
  ELSE "none"

Goto(e, pc) == [e EXCEPT !.p.pc = pc]

NextRow(e) == [e EXCEPT !.p.rowIndex = @ + 1]

SetOutcome(e, o) == [e EXCEPT !.p.outcome[e.p.rowIndex] = o]

Rows(item, k) == [i \in 1..k |-> item]

\* what a video file on disk holds: nothing yet or a part of the stream
\* ("partial"), a whole file below the minimum size that ffprobe can read
\* ("small"), a whole file ffprobe cannot read ("unreadable"), or a whole
\* file that passes validation ("valid")
WholeVideos == {"valid", "small", "unreadable"}

\* media.ts validateVideoFile: the file exists, has the minimum size and a
\* probed duration above 0
validateVideoFile(video) == video = "valid"

\* a staging file of the current run: the kind of file and the row it is for
File(i, kind) == [row |-> i, kind |-> kind, n |-> 0]

\* the n-th part file that splitAudioIntoChunks cuts from the audio of row i
PartFile(i, n) == [row |-> i, kind |-> "part", n |-> n]

WriteVideo(e, video) == [e EXCEPT !.p.video[e.p.rowIndex] = video]

WriteFile(e, kind) == [e EXCEPT !.p.files = @ \cup {File(e.p.rowIndex, kind)}]

\* safeRemoveFile(videoPath)
RemoveVideo(e) ==
  IF e.p.video[e.p.rowIndex] = "absent" THEN e
  ELSE [e EXCEPT !.p.video[e.p.rowIndex] = "absent",
                 !.p.deleted = @ \cup {"video"}]

\* safeRemoveFile on each path of a list
RemoveFiles(e, paths) ==
  [e EXCEPT !.p.files = @ \ paths,
            !.p.deleted = @ \cup {f.kind : f \in paths \cap e.p.files}]

\* cleanupFiles(cleanupPaths) of the interview analyzer
CleanupInterview(e) ==
  RemoveFiles(Say(e, "Cleaning up local interview artifacts...", NoPayload), e.p.cleanupPaths)

\* an interview analyzer that cleans up whatever the sink write returned
cleanupRegardless(e, savedToSheet) ==
  CleanupInterview([e EXCEPT !.p.sinkOk = savedToSheet])

\* runInterviewAnalyzer once appendRowsWithHeaders returned savedToSheet
cleanupIfSaved(e, savedToSheet) ==
  LET e1 == [e EXCEPT !.p.sinkOk = savedToSheet]
  IN IF savedToSheet THEN CleanupInterview(e1) ELSE e1

\* generateTranscript up to the first aiTranscribeAudio: splitAudioIntoChunks
\* returns the audio file itself or cuts it into parts
StartTranscript(e, parts) ==
  LET e1 == IF parts = 1 THEN e
            ELSE [e EXCEPT !.p.files = @ \cup {PartFile(e.p.rowIndex, n) : n \in 1..parts}]
      e2 == [e1 EXCEPT !.p.chunkIndex = 1, !.p.totalChunks = parts]
  IN Dispatch(Say(e2, "Generating transcript chunk 1/" \o ToStr(parts) \o "...", NoPayload),
              "transcribe", TRUE)

\* sendProgress that pushes the rows of the current candidate alone
sendProgressCurrentOnly(e, message) ==
  Say(e, message,
      PartialProgress(SelectSeq(e.p.finalRows, LAMBDA r : r = e.p.rowIndex), FALSE,
                      Percent(CompletedCandidates(e.p), e.p.totalRows)))

\* drilldown sendProgress(message)
sendProgress(e, message) ==
  Say(e, message,
      PartialProgress(e.p.finalRows, FALSE,
                      Percent(CompletedCandidates(e.p), e.p.totalRows)))

\* interview analyzer: processInterviewRow returned k rows for the current row;
\* saveQaCsv wrote them unless there are none
ItemComplete(e, k) ==
  LET i == e.p.rowIndex
      e0 == IF k > 0 THEN WriteFile(e, "csv") ELSE e
      e1 == [SetOutcome(e0, IF k > 0 THEN "rows" ELSE "empty")
               EXCEPT !.p.finalRows = @ \o Rows(i, k),
                      !.p.cleanupPaths = @ \cup {File(i, "audio"), File(i, "transcript"),
                                                  File(i, "csv")}]
  IN Goto(Say(e1, Cand(e1) \o ": completed.", Partial(e1.p.finalRows, FALSE)), "rowloop")

\* interview analyzer: an error of the current row escapes processInterviewRow;
\* the loop over the rows has no handler, so it escapes the runner
ItemThrows(e, err) == Throw(SetOutcome(e, "failed"), err)

\* drilldown: analyzeCandidateRow returned k rows for the current candidate
CandidateDone(e, k) ==
  LET e1 == [SetOutcome(e, IF k > 0 THEN "rows" ELSE "empty")
               EXCEPT !.p.finalRows = @ \o Rows(e.p.rowIndex, k)]
  IN Goto(sendProgress(e1, "Completed candidate " \o ToStr(e1.p.rowIndex) \o "/"
                             \o ToStr(e1.p.totalRows) \o "."), "rowloop")

\* drilldown: the catch block of runWorker
CandidateSkipped(e, reason) ==
  LET message == Cand(e) \o " skipped: " \o reason
      e1 == [SetOutcome(e, "skipped") EXCEPT !.p.skippedCandidates = Append(@, message)]
  IN Goto(sendProgress(Say(e1, message, NoPayload), message), "rowloop")

Active(pcs) ==
  /\ creating = 0
  /\ runner[PipeJob] = "pending"
  /\ pipe.pc \in pcs

PipeFrame == UNCHANGED <<registry, nextId, creating, now, ticks, lastCall, cancelRets,
                         cancelAsked, sheet, chunk, chat, calc, poll>>

\* the synchronous head of the runner, executed inside createJob
PipeBegin ==
  /\ Active({"start"})
  /\ Apply(IF Cancelled(Here.j) THEN ThrowCancelled(Here)
           ELSE IF pipe.wf = "interview"
           THEN Dispatch(Say(Here, "Preparing interview analyzer...", NoPayload),
                         "config", FALSE)
           ELSE IF pipe.wf = "uploader"
           THEN Dispatch(Say(Here, "Preparing local video uploader...", NoPayload),
                         "config", FALSE)
           ELSE IF pipe.wf = "assignment" THEN Dispatch(Here, "config", FALSE)
           ELSE Goto(Say(Here, "Loading curriculum context for drilldown...", NoPayload),
                     "curriculum"))
  /\ PipeFrame

\* getRuntimeProviderConfig settled (and, for the interview analyzer,
\* checkFfmpegInstalled ran)
ConfigDone ==
  /\ Active({"config"})
  /\ pipe.wf # "uploader"
  /\ Apply(IF preconditionError(pipe) # "none" THEN Throw(Here, preconditionError(pipe))
           ELSE IF pipe.wf = "interview"
           THEN Goto(Say(Here, "Loading curriculum and prompts...", NoPayload), "curriculum")
           ELSE IF pipe.wf = "assignment"
           THEN Goto(Say(Here, "Loading curriculum context...", NoPayload), "curriculum")
           ELSE Goto(sendProgress(Here, "Starting drilldown analysis with 1 worker..."),
                     "rowloop"))
  /\ PipeFrame

\* getCurriculumSnippet returned
CurriculumDone ==
  /\ Active({"curriculum"})
  /\ pipe.wf # "uploader"
  /\ Apply(IF Cancelled(Here.j) THEN ThrowCancelled(Here)
           ELSE IF pipe.wf \in {"interview", "assignment"} THEN Goto(Here, "rowloop")
           ELSE Dispatch(Here, "config", FALSE))
  /\ PipeFrame

\* video uploader: getRuntimeProviderConfig settled, then the interview_date of
\* the metadata and ffmpeg are checked; hasDate: the metadata has the date
UploaderConfigDone(hasDate) ==
  /\ Active({"config"})
  /\ pipe.wf = "uploader"
  /\ Apply(IF ~pipe.apiKeyPresent THEN Throw(Here, preconditionError(pipe))
           ELSE IF ~hasDate
           THEN Throw(Here, "Error: Missing interview_date in video uploader metadata.")
           ELSE IF preconditionError(pipe) # "none" THEN Throw(Here, preconditionError(pipe))
           ELSE Goto(Say(Here, "Loading curriculum and prompts...", NoPayload), "curriculum"))
  /\ PipeFrame

\* video uploader: getCurriculumSnippet returned; the uploaded buffer (upload
\* says what it holds) is written to the source video path and handed to
\* extractAudioFile, then generateTranscript runs up to its first request
UploaderCurriculumDone(upload, parts) ==
  /\ Active({"curriculum"})
  /\ pipe.wf = "uploader"
  /\ Apply(IF Cancelled(Here.j) THEN ThrowCancelled(Here)
           ELSE LET e1 == WriteVideo(Say(NextRow(Here), "Saving uploaded video...", NoPayload),
                                     upload)
                    e2 == [Say(e1, "Extracting audio...", NoPayload)
                             EXCEPT !.p.extracted = @ \cup {e1.p.rowIndex},
                                    !.p.itemWork = TRUE]
                IN IF upload = "unreadable"
                   THEN ItemThrows(e2, "Error: FFmpeg full audio extraction failed: Invalid data")
                   ELSE StartTranscript(Say(WriteFile(e2, "audio"), "Generating transcript...",
                                            NoPayload),
                                        parts))
  /\ PipeFrame

\* runVideoUploader once appendRowsWithHeaders returned savedToSheet: the source
\* video, the audio and the transcript are removed after a successful write
CleanupUploader(e, savedToSheet) ==
  LET e1 == [e EXCEPT !.p.sinkOk = savedToSheet]
  IN IF savedToSheet
     THEN RemoveFiles(RemoveVideo(Say(e1, "Cleaning up local video uploader artifacts...",
                                      NoPayload)),
                      {File(e.p.rowIndex, "audio"), File(e.p.rowIndex, "transcript")})
     ELSE e1

\* video uploader: runQnaPipeline returned k items, which become the rows of
\* the result
UploaderRows(e, k) ==
  LET e1 == Say([SetOutcome(e, IF k > 0 THEN "rows" ELSE "empty")
                   EXCEPT !.p.finalRows = Rows(e.p.rowIndex, k)],
                "Saving video uploader rows to sheet...", NoPayload)
  IN IF k = 0
     THEN Return(CleanupUploader(e1, TRUE), <<>>, TRUE)
     ELSE Dispatch(e1, "sink", TRUE)

\* the Q&A of the current transcript is extracted and classified: k rows
QnaDone(e, k) == IF e.p.wf = "uploader" THEN UploaderRows(e, k) ELSE ItemComplete(e, k)

\* interview analyzer after the loop over the rows
InterviewAfterLoop(e) ==
  LET e1 == Say(e, "Saving interview rows to sheet...", NoPayload)
  IN IF e.p.finalRows = <<>>
     THEN Return(cleanupIfSaved(e1, TRUE), <<>>, TRUE)
     ELSE Dispatch(e1, "sink", TRUE)

\* interview analyzer: top of the loop over the rows and the head of
\* processInterviewRow; hasDate describes the next input row, cached what is
\* at its video path from earlier runs
InterviewRowLoop(hasDate, cached) ==
  /\ Active({"rowloop"})
  /\ pipe.wf = "interview"
  /\ Apply(IF Cancelled(Here.j) THEN ThrowCancelled(Here)
           ELSE IF pipe.rowIndex >= pipe.totalRows THEN InterviewAfterLoop(Here)
           ELSE LET e1 == WriteVideo(NextRow(Here), cached)
                    e2 == Say(e1, Cand(e1) \o ": validating cached video...", NoPayload)
                IN IF ~hasDate
                   THEN ItemThrows(e1, "Error: Missing interview_date for interview analyzer row.")
                   ELSE IF validateVideoFile(cached)
                   THEN Goto([e2 EXCEPT !.p.validated = @ \cup {e2.p.rowIndex},
                                        !.p.downloaded = {}], "postdl")
                   ELSE Dispatch(Say([RemoveVideo(e2) EXCEPT
                                        !.p.downloaded = {e2.p.rowIndex}],
                                     Cand(e2) \o ": downloading video...", Progress(0)),
                                 "download", TRUE))
  /\ PipeFrame

\* the progress callback of a download in flight: a part of the stream was
\* written to the video path
DownloadProgress ==
  /\ Active({"download", "fallback"})
  /\ Apply(Say(WriteVideo(Here, "partial"), Cand(Here) \o ": downloading video...",
               Progress(50)))
  /\ PipeFrame

\* downloadViaPublicDrive settled.  It returns false before anything is
\* written, true with a whole file (video) at the path, or rejects when the
\* stream fails: the promise of downloadFetchResponseToPath is returned
\* without await, so the catch block does not see its rejection
DownloadDone(r, video) ==
  /\ Active({"download"})
  /\ r = "false" => pipe.video[pipe.rowIndex] = "absent"
  /\ Apply(IF r = "throws" THEN ItemThrows(WriteVideo(Here, "partial"), "TypeError: terminated")
           ELSE LET e1 == IF r = "true" THEN WriteVideo(Here, video) ELSE Here
                IN IF Cancelled(e1.j) THEN ThrowCancelled(e1)
                   ELSE IF r = "true" /\ validateVideoFile(video)
                   THEN Goto([e1 EXCEPT !.p.validated = @ \cup {e1.p.rowIndex}], "postdl")
                   ELSE Dispatch(
                          Say(Say(RemoveVideo(e1),
                                  Cand(e1) \o ": public download failed, switching to Drive API...",
                                  Progress(0)),
                              Cand(e1) \o ": trying Drive API download...", Progress(0)),
                          "fallback", TRUE))
  /\ PipeFrame

\* downloadDriveFileToPath returned "Success" with a whole file (video) at
\* the path, or an error text with whatever the stream had written
FallbackDone(r, video) ==
  /\ Active({"fallback"})
  /\ Apply(LET e1 == IF r = "Success" THEN WriteVideo(Here, video) ELSE Here
           IN IF Cancelled(e1.j) THEN ThrowCancelled(e1)
              ELSE IF r # "Success"
              THEN ItemThrows(RemoveVideo(e1), "Error: Drive API Download failed.")
              ELSE IF ~validateVideoFile(video)
              THEN ItemThrows(RemoveVideo(e1), "Error: Drive API file invalid.")
              ELSE Goto([e1 EXCEPT !.p.validated = @ \cup {e1.p.rowIndex}], "postdl"))
  /\ PipeFrame

\* final validation, duration probe and audio extraction (all synchronous),
\* then generateTranscript up to the first transcription request
PostDownload(mediaOk, parts) ==
  /\ Active({"postdl"})
  /\ Apply(IF ~validateVideoFile(pipe.video[pipe.rowIndex])
           THEN ItemThrows(RemoveVideo(Here), "Error: Failed to get a valid video file.")
           ELSE IF ~mediaOk THEN ItemThrows(Here, "Error: Could not determine video duration.")
           ELSE StartTranscript(
                  Say(WriteFile([Say(Here, Cand(Here) \o ": extracting audio...", NoPayload)
                                   EXCEPT !.p.extracted = @ \cup {pipe.rowIndex}],
                                "audio"),
                      Cand(Here) \o ": generating transcript...", NoPayload),
                  parts))
  /\ PipeFrame

\* aiTranscribeAudio settled for the current chunk; a part file is removed once
\* it is transcribed.  After the last chunk the transcript is written;
\* hasText: it is not empty
TranscribeDone(ok, hasText) ==
  /\ Active({"transcribe"})
  /\ Apply(IF ~ok THEN ItemThrows(Here, "Error: Transcription failed.")
           ELSE IF Cancelled(Here.j) THEN ThrowCancelled(Here)
           ELSE LET e1 == IF pipe.totalChunks > 1
                          THEN RemoveFiles(Here, {PartFile(pipe.rowIndex, pipe.chunkIndex)})
                          ELSE Here
                    e2 == [WriteFile(e1, "transcript") EXCEPT !.p.chunkIndex = 0,
                                                              !.p.totalChunks = 0]
                IN IF pipe.chunkIndex < pipe.totalChunks
                   THEN Dispatch(Say([e1 EXCEPT !.p.chunkIndex = @ + 1],
                                     "Generating transcript chunk " \o ToStr(pipe.chunkIndex + 1)
                                       \o "/" \o ToStr(pipe.totalChunks) \o "...", NoPayload),
                                 "transcribe", TRUE)
                   ELSE IF pipe.wf = "uploader"
                   THEN LET e3 == Say(e2, "Creating transcript gist...", NoPayload)
                        IN IF hasText THEN Dispatch(e3, "gist", TRUE)
                           ELSE UploaderRows(Say(e3, "Extracting and classifying Q&A...",
                                                 NoPayload), 0)
                   ELSE IF hasText
                   THEN Dispatch(Say(e2, Cand(e2) \o ": creating transcript gist...", NoPayload),
                                 "gist", TRUE)
                   ELSE ItemComplete(Say(e2, Cand(e2) \o ": extracting Q&A...", NoPayload), 0))
  /\ PipeFrame

\* createPublicGist returned; the extraction chat call is dispatched
GistDone ==
  /\ Active({"gist"})
  /\ Apply(IF Cancelled(Here.j) THEN ThrowCancelled(Here)
           ELSE Dispatch(Say(Here, IF pipe.wf = "uploader"
                                   THEN "Extracting and classifying Q&A..."
                                   ELSE Cand(Here) \o ": extracting Q&A...", NoPayload),
                         "extract", TRUE))
  /\ PipeFrame

\* assignment workflow: the row of the current link is pushed; onStatus is not
\* called
AssignmentRow(e) ==
  Goto([SetOutcome(e, "rows") EXCEPT !.p.finalRows = @ \o Rows(e.p.rowIndex, 1)], "rowloop")

\* assignment workflow after the loop over the rows
AssignmentAfterLoop(e) ==
  LET e1 == Say(e, "Saving assignment results to sheet...", NoPayload)
  IN IF e.p.finalRows = <<>> THEN Return(e1, <<>>, TRUE) ELSE Dispatch(e1, "sink", TRUE)

\* assignment workflow: top of the loop over the rows; hasLink: the next row
\* has an assignment_link
AssignmentRowLoop(hasLink) ==
  /\ Active({"rowloop"})
  /\ pipe.wf = "assignment"
  /\ Apply(IF Cancelled(Here.j) THEN ThrowCancelled(Here)
           ELSE IF pipe.rowIndex >= pipe.totalRows THEN AssignmentAfterLoop(Here)
           ELSE LET e1 == NextRow(Here)
                IN IF ~hasLink THEN SetOutcome(e1, "empty")
                   ELSE Dispatch(Say(e1, "Fetching assignment content "
                                           \o ToStr(e1.p.rowIndex) \o "/"
                                           \o ToStr(e1.p.totalRows) \o "...", NoPayload),
                                 "fetch", TRUE))
  /\ PipeFrame

\* smartFetchContent settled: with a text, with an "Error..." text, or rejected
\* (the promise of tryFetchText is returned without await, so its rejection is
\* not caught)
FetchDone(r) ==
  /\ Active({"fetch"})
  /\ Apply(IF r = "throws" THEN ItemThrows(Here, "Error: 404 Not Found")
           ELSE IF Cancelled(Here.j) THEN ThrowCancelled(Here)
           ELSE LET e1 == Say(Here, "Analyzing assignment " \o ToStr(pipe.rowIndex) \o "/"
                                      \o ToStr(pipe.totalRows) \o "...", NoPayload)
                IN IF r = "text" THEN Dispatch(e1, "analyze", TRUE) ELSE AssignmentRow(e1))
  /\ PipeFrame

ChatPcs == {"extract", "classify", "round", "analyze"}

ChatFailure == "Error: MISTRAL chat failed after retries"

\* aiChat returned content from which k items were parsed
ChatReturned(e, k) ==
  CASE e.p.pc = "extract" ->
         IF Cancelled(e.j) THEN ThrowCancelled(e)
         ELSE IF k = 0 THEN QnaDone(e, 0)
         ELSE Dispatch(e, "classify", TRUE)
    [] e.p.pc = "classify" ->
         IF Cancelled(e.j) THEN ThrowCancelled(e) ELSE QnaDone(e, 1)
    [] e.p.pc = "round" ->
         IF Cancelled(e.j) THEN CandidateSkipped(e, "JobCancelledError: Cancelled by user.")
         ELSE IF k = 0 THEN CandidateSkipped(e, "Error: No questions extracted for candidate.")
         ELSE CandidateDone(e, k)
    [] e.p.pc = "analyze" ->
         IF Cancelled(e.j) THEN ThrowCancelled(e) ELSE AssignmentRow(e)

\* aiChat threw after its last attempt
ChatThrew(e) ==
  IF e.p.pc = "round"
  THEN CandidateSkipped(
         Say(e, "Skipping round for candidate " \o ToStr(e.p.rowIndex) \o "/"
                  \o ToStr(e.p.totalRows) \o ": " \o ChatFailure, NoPayload),
         IF Cancelled(e.j) THEN "JobCancelledError: Cancelled by user."
         ELSE "Error: No questions extracted for candidate.")
  ELSE IF e.p.pc = "analyze"
  THEN IF Cancelled(e.j) THEN ThrowCancelled(e) ELSE AssignmentRow(e)
  ELSE ItemThrows(e, ChatFailure)

\* retry loop of aiChat that gives up after the first failed attempt
chatAttemptFailedNoRetry(e, retriable) == ChatThrew(e)

\* catch block of the retry loop of aiChat: back off and go round again while
\* the status is retriable and attempts remain
chatAttemptFailed(e, retriable) ==
  IF ~retriable \/ e.p.attempt >= MISTRAL_CHAT_MAX_RETRIES_PER_KEY - 1
  THEN ChatThrew(e)
  ELSE [e EXCEPT !.p.backoff = TRUE]

\* one request of aiChat settled: "ok", a retriable status, or another failure
ChatResponse(r, k) ==
  /\ Active(ChatPcs)
  /\ ~pipe.backoff
  /\ Apply(IF r = "ok" THEN ChatReturned(Here, k)
           ELSE chatAttemptFailed(Here, r = "retriable"))
  /\ PipeFrame

\* the backoff sleep of aiChat is over: the next request is sent
ChatRetry ==
  /\ Active(ChatPcs)
  /\ pipe.backoff
  /\ Apply([Here EXCEPT !.p.attempt = @ + 1,
                        !.p.backoff = FALSE,
                        !.p.dispatchedAfterCancel = @ \/ Cancelled(Here.j)])
  /\ PipeFrame

\* drilldown after Promise.all over the workers
DrilldownAfterWorkers(e) ==
  LET e1 == IF e.p.skippedCandidates # <<>>
            THEN Say(e, "Skipped " \o ToStr(Len(e.p.skippedCandidates)) \o "/"
                          \o ToStr(e.p.totalRows) \o " candidates due to parse issues.",
                     NoPayload)
            ELSE e
      e2 == Say(e1, "Saving drilldown results to sheet...",
                PartialProgress(e.p.finalRows, FALSE, 100))
  IN IF e.p.totalRows > 0 /\ e.p.finalRows = <<>>
     THEN Throw(e1, "Error: No questions were extracted from drilldown input.")
     ELSE IF Cancelled(e1.j) THEN ThrowCancelled(e1)
     ELSE IF e.p.finalRows = <<>>
     THEN Return(Say(e2, "Drilldown analysis completed.", PartialProgress(<<>>, TRUE, 100)),
                 <<>>, TRUE)
     ELSE Dispatch(e2, "sink", TRUE)

\* drilldown: top of the loop of runWorker and the head of analyzeCandidateRow;
\* hasRound: the next candidate has a round with valid notes
DrilldownRowLoop(hasRound) ==
  /\ Active({"rowloop"})
  /\ pipe.wf = "drilldown"
  /\ Apply(IF Cancelled(Here.j) THEN ThrowCancelled(Here)
           ELSE IF pipe.rowIndex >= pipe.totalRows THEN DrilldownAfterWorkers(Here)
           ELSE LET e1 == NextRow(Here)
                    n == ToStr(e1.p.rowIndex) \o "/" \o ToStr(e1.p.totalRows)
                    e2 == Say(Say(e1, "Worker 1/1: analyzing candidate " \o n \o "...", NoPayload),
                              "Analyzing candidate " \o n \o "...", NoPayload)
                IN IF ~hasRound THEN CandidateDone(e2, 0)
                   ELSE Dispatch(Say(e2, "Classifying round for candidate " \o n \o "...",
                                     NoPayload),
                                 "round", TRUE))
  /\ PipeFrame

\* appendRowsWithHeaders returned ok
SinkDone(ok) ==
  /\ Active({"sink"})
  /\ sheet' = IF ok THEN sheet \o pipe.finalRows ELSE sheet
  /\ Apply(IF pipe.wf = "interview"
           THEN Return(cleanupIfSaved(Here, ok), pipe.finalRows, ok)
           ELSE IF pipe.wf = "uploader"
           THEN Return(CleanupUploader(Here, ok), pipe.finalRows, ok)
           ELSE IF pipe.wf = "assignment" THEN Return(Here, pipe.finalRows, ok)
           ELSE Return(Say(Here, IF ok THEN "Drilldown analysis completed."
                                 ELSE "Drilldown completed, but sheet save failed.",
                           PartialProgress(pipe.finalRows, ok, 100)),
                       pipe.finalRows, ok))
  /\ UNCHANGED <<registry, nextId, creating, now, ticks, lastCall, cancelRets,
                 cancelAsked, chunk, chat, calc, poll>>

PipeInit ==
  /\ jobs = [id \in JobIds |-> BlankJob]
  /\ poll = NoPoll
  /\ registry = {}
  /\ nextId = 1
  /\ creating = 0
  /\ runner = [id \in JobIds |-> "none"]
  /\ now = 0
  /\ ticks = 0
  /\ lastCall = NoCall
  /\ cancelRets = [id \in JobIds |-> <<>>]
  /\ cancelAsked = {}
  /\ \E wf \in Workflows, n \in 0..MaxRows, key \in BOOLEAN, ff \in BOOLEAN :
       /\ wf = "uploader" => n = 1
       /\ pipe = PipeStart(wf, n, key, ff)
  /\ sheet = <<>>
  /\ chunk = NoChunk
  /\ chat = NoChat
  /\ calc = NoCalc

PipeNext ==
  \/ CreateJob /\ nextId = PipeJob
  \/ StartJob
  \/ getJob(PipeJob)
  \/ cancelJob(PipeJob)
  \/ PipeBegin
  \/ ConfigDone
  \/ CurriculumDone
  \/ \E hasDate \in BOOLEAN : UploaderConfigDone(hasDate)
  \/ \E upload \in WholeVideos, parts \in 1..MaxParts : UploaderCurriculumDone(upload, parts)
  \/ \E hasDate \in BOOLEAN, cached \in {"absent", "partial", "valid"} :
       InterviewRowLoop(hasDate, cached)
  \/ DownloadProgress
  \/ \E r \in {"false", "true", "throws"}, video \in WholeVideos : DownloadDone(r, video)
  \/ \E r \in {"Success", "error"}, video \in WholeVideos : FallbackDone(r, video)
  \/ \E mediaOk \in BOOLEAN, parts \in 1..MaxParts : PostDownload(mediaOk, parts)
  \/ \E ok \in BOOLEAN, hasText \in BOOLEAN : TranscribeDone(ok, hasText)
  \/ GistDone
  \/ \E r \in {"ok", "retriable", "fatal"}, k \in 0..1 : ChatResponse(r, k)
  \/ ChatRetry
  \/ \E hasRound \in BOOLEAN : DrilldownRowLoop(hasRound)
  \/ \E hasLink \in BOOLEAN : AssignmentRowLoop(hasLink)
  \/ \E r \in {"text", "errortext", "throws"} : FetchDone(r)
  \/ \E ok \in BOOLEAN : SinkDone(ok)

SpecPipe == PipeInit /\ [][PipeNext]_vars

(***************************************************************************)
(* Claims about the pipeline executors, checked under SpecPipe.            *)
(***************************************************************************)
PipeState == jobs[PipeJob].state

PipeFinished == pipe.pc = "done" /\ PipeJob \in registry

\* a pipeline-wide precondition of the run does not hold
PreconditionFails ==
  ~pipe.apiKeyPresent \/ (pipe.wf \in {"interview", "uploader"} /\ ~pipe.ffmpegInstalled)

ItemsWith(os) == {i \in 1..pipe.totalRows : pipe.outcome[i] \in os}

\* C6 (as claimed): once cancelJob was called on the running job, the pipeline
\* dispatches no further external call, the retry attempts of a chat call
\* included.
C6_NoDispatchAfterCancel == ~pipe.dispatchedAfterCancel

\* C8 (as claimed): when one item produced rows and the processing of another
\* item failed, the failure is skipped over: every item is processed and the
\* job ends in success with the rows of the successful items in its result.
C8_ItemFailureSkipped ==
  (/\ PipeFinished
   /\ PipeJob \notin cancelAsked
   /\ ItemsWith({"rows"}) # {}
   /\ ItemsWith({"failed", "skipped"}) # {})
  => /\ PipeState = "success"
     /\ jobs[PipeJob].result = [rows |-> pipe.finalRows, savedToSheet |-> sheet # <<>>]
     /\ ItemsWith({"none"}) = {}

\* C9 (as claimed): a job whose preconditions passed and that was not
\* cancelled ends in error only if no item produced a row, and ends in success
\* if some item produced one.
C9_ErrorOnlyIfNoRows ==
  (/\ PipeFinished
   /\ PipeJob \notin cancelAsked
   /\ ~PreconditionFails)
  => /\ (PipeState = "error" => ItemsWith({"rows"}) = {})
     /\ (ItemsWith({"rows"}) # {} => PipeState = "success")

\* C10 (as claimed): when a pipeline-wide precondition fails the job ends in
\* error and no per-item work was started.
C10_PreconditionFailureIsError ==
  (PipeFinished /\ PreconditionFails)
  => /\ PipeState = "error"
     /\ ~pipe.itemWork /\ pipe.rowIndex = 0 /\ sheet = <<>>

\* C10 (amended): when a pipeline-wide precondition fails, no per-item work
\* is ever started and nothing is written to the sink; the job ends in error,
\* or in cancelled when cancelJob was called before the runner settled.
C10_PreconditionAborts ==
  (pipe.wf # "none" /\ PreconditionFails)
  => /\ ~pipe.itemWork /\ pipe.rowIndex = 0 /\ sheet = <<>>
     /\ pipe.pc \notin {"rowloop", "postdl", "download", "fallback", "transcribe",
                        "gist", "extract", "classify", "round", "sink"}
     /\ PipeFinished =>
          PipeState = IF PipeJob \in cancelAsked THEN "cancelled" ELSE "error"

\* the precondition failed and the job ended in error
C10_Witness ==
  /\ PipeFinished
  /\ PreconditionFails
  /\ PipeState = "error"
  /\ jobs[PipeJob].error = preconditionError(pipe)

\* the job of the pipeline as a poller can read it while the runner is between
\* two awaited calls
PipeObservable ==
  /\ pipe.wf # "none"
  /\ PipeJob \in registry
  /\ pipe.pc \notin SyncPcs \cup {"none", "done"}

IsPrefix(a, b) == Len(a) <= Len(b) /\ SubSeq(b, 1, Len(a)) = a

\* C11 (as claimed): in every workflow, once an input item has completed with
\* rows, a getJob on the running job returns a partialResult holding all rows
\* accumulated so far.
C11_PartialResultAfterEachItem ==
  (/\ PipeObservable
   /\ PipeState = "running"
   /\ ItemsWith({"rows"}) # {})
  => /\ jobs[PipeJob].partialResult # Undef
     /\ jobs[PipeJob].partialResult.rows = pipe.finalRows

\* C12: the partialResult of the job is only ever replaced by one that extends
\* it (same rows in the same order, row count never decreasing), and the final
\* result extends the last partialResult.
C12_PartialResultsGrow ==
  [][/\ (PipeJob \in registry /\ PipeJob \in registry'
         /\ jobs[PipeJob].partialResult # Undef)
        => /\ jobs'[PipeJob].partialResult # Undef
           /\ IsPrefix(jobs[PipeJob].partialResult.rows, jobs'[PipeJob].partialResult.rows)
     /\ (PipeJob \in registry' /\ jobs'[PipeJob].state = "success"
         /\ jobs'[PipeJob].partialResult # Undef)
        => IsPrefix(jobs'[PipeJob].partialResult.rows, jobs'[PipeJob].result.rows)]_vars

\* two items completed one after the other, each pushed a longer partialResult,
\* and the job ended in success with all their rows
C12_Witness ==
  /\ PipeFinished
  /\ PipeState = "success"
  /\ jobs[PipeJob].partialResult # Undef
  /\ jobs[PipeJob].partialResult.rows = <<1, 2>>
  /\ jobs[PipeJob].result.rows = <<1, 2>>

(***************************************************************************)
(* Strings as sequences of characters, and the String methods the row      *)
(* functions use.                                                          *)
(***************************************************************************)
MaxStrLen == 3
MaxElems == 2

Lowers == <<"a", "b", "c", "d", "e", "f", "g", "h", "i", "j", "k", "l", "m",
            "n", "o", "p", "q", "r", "s", "t", "u", "v", "w", "x", "y", "z">>

Uppers == <<"A", "B", "C", "D", "E", "F", "G", "H", "I", "J", "K", "L", "M",
            "N", "O", "P", "Q", "R", "S", "T", "U", "V", "W", "X", "Y", "Z">>

Digits == {"0", "1", "2", "3", "4", "5", "6", "7", "8", "9"}

Whitespace == {" ", "\t", "\n"}

Range(f) == {f[i] : i \in DOMAIN f}

UpperChar(c) ==
  IF c \in Range(Lowers) THEN Uppers[CHOOSE i \in DOMAIN Lowers : Lowers[i] = c] ELSE c

toUpperCase(s) == [i \in 1..Len(s) |-> UpperChar(s[i])]

RECURSIVE dropLeading(_, _)
dropLeading(s, cs) ==
  IF s # <<>> /\ Head(s) \in cs THEN dropLeading(Tail(s), cs) ELSE s

RECURSIVE dropTrailing(_, _)
dropTrailing(s, cs) ==
  IF s # <<>> /\ s[Len(s)] \in cs THEN dropTrailing(SubSeq(s, 1, Len(s) - 1), cs) ELSE s

trim(s) == dropTrailing(dropLeading(s, Whitespace), Whitespace)

\* the characters the class [^A-Z0-9] of the regular expression matches
NonAlnum(c) == c \notin Range(Uppers) \cup Digits

RECURSIVE dropNonAlnum(_)
dropNonAlnum(s) ==
  IF s # <<>> /\ NonAlnum(Head(s)) THEN dropNonAlnum(Tail(s)) ELSE s

\* replace(/[^A-Z0-9]+/g, "_")
RECURSIVE replaceNonAlnumRuns(_)
replaceNonAlnumRuns(s) ==
  IF s = <<>> THEN <<>>
  ELSE IF NonAlnum(Head(s)) THEN <<"_">> \o replaceNonAlnumRuns(dropNonAlnum(Tail(s)))
  ELSE <<Head(s)>> \o replaceNonAlnumRuns(Tail(s))

\* replace(/^_+|_+$/g, "")
stripUnderscores(s) == dropTrailing(dropLeading(s, {"_"}), {"_"})

RECURSIVE join(_, _)
join(ss, sep) ==
  IF ss = <<>> THEN <<>>
  ELSE IF Len(ss) = 1 THEN ss[1]
  ELSE ss[1] \o sep \o join(Tail(ss), sep)

NA == <<"N", "/", "A">>

\* the result null of normalizeSingle; no string, since a character is one letter
Null == <<"null value">>

\* JavaScript values passed to forceEnumFormat: null/undefined, a string, or
\* an array of such values
NullValue == [kind |-> "null", s |-> <<>>, elems |-> <<>>]

Str(s) == [kind |-> "string", s |-> s, elems |-> <<>>]

Arr(elems) == [kind |-> "array", s |-> <<>>, elems |-> elems]

(***************************************************************************)
(* utils/enum.ts                                                           *)
(***************************************************************************)
EmptyLikes == {<<"N", "/", "A">>, <<"N", "A", "N">>, <<"N", "O", "N", "E">>,
               <<"N", "U", "L", "L">>}

isEmptyLike(value) ==
  IF value.kind = "null" THEN TRUE
  ELSE LET normalized == toUpperCase(trim(value.s))
       IN Len(normalized) = 0 \/ normalized \in EmptyLikes

normalizeSingle(value) ==
  IF isEmptyLike(value) THEN Null
  ELSE stripUnderscores(replaceNonAlnumRuns(trim(toUpperCase(value.s))))

\* Boolean(entry) of the filter over the normalized array
Truthy(entry) == entry # Null /\ Len(entry) > 0

forceEnumFormat(value) ==
  IF value.kind = "array"
  THEN LET normalized ==
             SelectSeq([i \in 1..Len(value.elems) |-> normalizeSingle(value.elems[i])], Truthy)
       IN IF Len(normalized) > 0 THEN join(normalized, <<",", " ">>) ELSE NA
  ELSE LET normalized == normalizeSingle(value)
       IN IF Truthy(normalized) THEN normalized ELSE NA

(***************************************************************************)
(* SpecEnum: forceEnumFormat applied to every value over a small alphabet. *)
(***************************************************************************)
EnumChars == {"a", "n", "/", " ", "+"}

RECURSIVE StringsUpTo(_, _)
StringsUpTo(cs, n) ==
  IF n = 0 THEN {<<>>}
  ELSE LET shorter == StringsUpTo(cs, n - 1)
       IN shorter \cup {<<c>> \o t : c \in cs, t \in {u \in shorter : Len(u) = n - 1}}

EnumElems ==
  {NullValue, Str(<<>>), Str(<<"a">>), Str(<<"n", "/", "a">>), Str(<<"+">>),
   Str(<<"a", "+", "+">>), Str(<<" ", "n">>)}

RECURSIVE SeqsUpTo(_, _)
SeqsUpTo(S, n) ==
  IF n = 0 THEN {<<>>}
  ELSE LET shorter == SeqsUpTo(S, n - 1)
       IN shorter \cup {<<x>> \o t : x \in S, t \in {u \in shorter : Len(u) = n - 1}}

EnumInputs ==
  {NullValue}
  \cup {Str(s) : s \in StringsUpTo(EnumChars, MaxStrLen)}
  \cup {Arr(es) : es \in SeqsUpTo(EnumElems, MaxElems)}

forceEnumFormatCall ==
  /\ calc.fn = "enum"
  /\ calc.pc = "call"
  /\ calc' = [calc EXCEPT !.pc = "done", !.out = forceEnumFormat(calc.value)]
  /\ UNCHANGED <<jobVars, pipe, sheet, chunk, chat, poll>>

EnumInit ==
  /\ jobs = [id \in JobIds |-> BlankJob]
  /\ poll = NoPoll
  /\ registry = {}
  /\ nextId = 1
  /\ creating = 0
  /\ runner = [id \in JobIds |-> "none"]
  /\ now = 0
  /\ ticks = 0
  /\ lastCall = NoCall
  /\ cancelRets = [id \in JobIds |-> <<>>]
  /\ cancelAsked = {}
  /\ pipe = NoPipe
  /\ sheet = <<>>
  /\ chunk = NoChunk
  /\ chat = NoChat
  /\ \E v \in EnumInputs : calc = [fn |-> "enum", pc |-> "call", value |-> v, out |-> <<>>]

EnumNext == forceEnumFormatCall

SpecEnum == EnumInit /\ [][EnumNext]_vars

(***************************************************************************)
(* Claims about forceEnumFormat, checked under SpecEnum.                   *)
(***************************************************************************)
\* the normalization of one scalar as the claim words it
ReferenceScalar(value) ==
  IF isEmptyLike(value) THEN NA
  ELSE stripUnderscores(replaceNonAlnumRuns(toUpperCase(value.s)))

ReferenceNormalization(value) ==
  IF value.kind = "array"
  THEN join([i \in 1..Len(value.elems) |-> ReferenceScalar(value.elems[i])], <<",", " ">>)
  ELSE ReferenceScalar(value)

\* C15 (as claimed): for every input, forceEnumFormat returns the reference
\* normalization: "N/A" for an empty or n/a-like scalar, the uppercased and
\* underscore-collapsed text for any other scalar, and for an array the
\* normalized elements joined with ", ".
C15_MatchesReference ==
  (calc.fn = "enum" /\ calc.pc = "done") => calc.out = ReferenceNormalization(calc.value)

(***************************************************************************)
(* Row assembly: extraction, deduplication, classification merge and the   *)
(* mapping to sheet rows of the interview pipeline (runQnaPipeline,        *)
(* mapQaToSheetRows, ensureHeaderOrder) and of the assessment pipeline     *)
(* (classifyExtractedQuestions, toFinalAssessmentRow, orderRows).  A       *)
(* JavaScript object is the sequence of its <<key, value>> pairs in        *)
(* insertion order.                                                        *)
(***************************************************************************)
MaxItems == 3
MaxClassified == 1

\* the value undefined; no string, since a character is one letter
Undefined == <<"undefined value">>

Has(obj, key) == \E i \in 1..Len(obj) : obj[i][1] = key

Get(obj, key) ==
  IF Has(obj, key) THEN obj[CHOOSE i \in 1..Len(obj) : obj[i][1] = key][2] ELSE Undefined

\* obj[key] = value
Put(obj, key, value) ==
  IF Has(obj, key)
  THEN [i \in 1..Len(obj) |-> IF obj[i][1] = key THEN <<key, value>> ELSE obj[i]]
  ELSE Append(obj, <<key, value>>)

\* { ...a, ...b }
RECURSIVE Spread(_, _)
Spread(a, b) == IF b = <<>> THEN a ELSE Spread(Put(a, Head(b)[1], Head(b)[2]), Tail(b))

\* delete obj[key]
Delete(obj, key) == SelectSeq(obj, LAMBDA kv : kv[1] # key)

Keys(obj) == [i \in 1..Len(obj) |-> obj[i][1]]

\* value ?? fallback
Coalesce(value, fallback) == IF value = Undefined THEN fallback ELSE value

\* value || fallback, for strings
OrElse(value, fallback) == IF value = Undefined \/ value = <<>> THEN fallback ELSE value

SHEET_HEADERS ==
  <<"user_id", "full_name", "mobile_number", "job_id", "company_name", "question_text",
    "answer_text", "relevancy_score", "question_type", "tech_stacks", "topic", "sub_topic",
    "difficulty", "interview_round", "clip_start_time", "clip_end_time", "video_link",
    "transcript_link", "drive_file_id", "curriculum_coverage", "question_uid",
    "interview_date", "question_creation_datetime", "source_type", "product">>

CLASSIFY_FIELDS ==
  <<"question_type", "question_concept", "difficulty", "topic", "sub_topic",
    "relevancy_score", "curriculum_coverage">>

ASSESSMENT_SHEET_HEADERS ==
  <<"job_id", "company_name", "questions", "question_type", "tech_stacks", "topic",
    "sub_topic", "difficulty_level", "curriculum_coverage", "question_uid",
    "assessment_date", "question_creation_datetime", "product">>

\* values the code generates (randomUUID, the clock) or receives unchanged
Uid == <<"u", "i", "d">>

Stamp == <<"t", "s">>

Product == <<"N", "I", "A", "T">>

\* processLargeTranscriptWithOverlap: the items pushed for one parsed response
extractItems(parsed) ==
  [i \in 1..Len(parsed) |->
     <<<<"question_text", Coalesce(Get(parsed[i], "question_text"), <<>>)>>,
       <<"answer_text", Coalesce(Get(parsed[i], "answer_text"), <<>>)>>>>]

QuestionKey(item) == trim(Coalesce(Get(item, "question_text"), <<>>))

RECURSIVE deduplicateLoop(_, _)
deduplicateLoop(items, seen) ==
  IF items = <<>> THEN <<>>
  ELSE LET key == QuestionKey(Head(items))
       IN IF key = <<>> \/ key \in seen THEN deduplicateLoop(Tail(items), seen)
          ELSE <<Head(items)>> \o deduplicateLoop(Tail(items), seen \cup {key})

deduplicateQna(items) == deduplicateLoop(items, {})

\* index.get(key) ?? {} after the loop of index.set over the classified items
IndexGet(classified, key) ==
  LET hits == {i \in 1..Len(classified) : key # <<>> /\ QuestionKey(classified[i]) = key}
  IN IF hits = {} THEN <<>>
     ELSE classified[CHOOSE i \in hits : \A j \in hits : j <= i]

RECURSIVE copyFields(_, _, _)
copyFields(merged, match, fields) ==
  IF fields = <<>> THEN merged
  ELSE copyFields(IF Get(match, Head(fields)) # Undefined
                  THEN Put(merged, Head(fields), Get(match, Head(fields)))
                  ELSE merged,
                  match, Tail(fields))

RECURSIVE fillFields(_, _)
fillFields(merged, fields) ==
  IF fields = <<>> THEN merged
  ELSE fillFields(IF Get(merged, Head(fields)) = Undefined
                  THEN Put(merged, Head(fields), NA)
                  ELSE merged,
                  Tail(fields))

mergeClassification(original, classified) ==
  [i \in 1..Len(original) |->
     fillFields(copyFields(original[i],
                           IndexGet(classified, QuestionKey(original[i])),
                           CLASSIFY_FIELDS),
                CLASSIFY_FIELDS)]

\* the local constants of processInterviewRow that come from the input row
InterviewMeta(row) ==
  [userId |-> trim(Coalesce(Get(row, "user_id"), NA)),
   fullName |-> trim(Coalesce(Get(row, "fullName"), NA)),
   mobile |-> trim(Coalesce(Get(row, "MobileNumber"), NA)),
   jobId |-> trim(Coalesce(Get(row, "job_id"), NA)),
   companyName |-> trim(Coalesce(Get(row, "company_name"), NA)),
   interviewRound |-> trim(Coalesce(Get(row, "interview_round"), NA)),
   interviewDate |-> trim(Coalesce(Get(row, "interview_date"), <<>>))]

Enum(value) == forceEnumFormat(Str(value))

mapQaToSheetRows(qaItems, meta) ==
  [i \in 1..Len(qaItems) |->
     LET item == qaItems[i]
     IN <<<<"user_id", meta.userId>>,
          <<"full_name", meta.fullName>>,
          <<"mobile_number", meta.mobile>>,
          <<"job_id", meta.jobId>>,
          <<"company_name", meta.companyName>>,
          <<"question_text", Coalesce(Get(item, "question_text"), <<>>)>>,
          <<"answer_text", Coalesce(Get(item, "answer_text"), <<>>)>>,
          <<"relevancy_score", Coalesce(Get(item, "relevancy_score"), NA)>>,
          <<"question_type", Enum(Coalesce(Get(item, "question_type"), NA))>>,
          <<"tech_stacks", Enum(Coalesce(Get(item, "question_concept"), NA))>>,
          <<"topic", Enum(Coalesce(Get(item, "topic"), NA))>>,
          <<"sub_topic", Enum(Coalesce(Get(item, "sub_topic"), NA))>>,
          <<"difficulty", Enum(Coalesce(Get(item, "difficulty"), NA))>>,
          <<"interview_round", Enum(meta.interviewRound)>>,
          <<"clip_start_time", <<"0">>>>,
          <<"clip_end_time", <<"9">>>>,
          <<"video_link", <<"v">>>>,
          <<"transcript_link", <<"g">>>>,
          <<"drive_file_id", <<"f">>>>,
          <<"curriculum_coverage", Enum(Coalesce(Get(item, "curriculum_coverage"), NA))>>,
          <<"question_uid", Uid>>,
          <<"interview_date", meta.interviewDate>>,
          <<"question_creation_datetime", Stamp>>,
          <<"source_type", <<"I">>>>,
          <<"product", Product>>>>]

\* ensureHeaderOrder, orderRows: one object per row with the headers as keys
orderByHeaders(rows, headers) ==
  [i \in 1..Len(rows) |->
     [h \in 1..Len(headers) |-> <<headers[h], Coalesce(Get(rows[i], headers[h]), NA)>>]]

ensureHeaderOrder(rows) == orderByHeaders(rows, SHEET_HEADERS)

\* extractInitialQuestions: every question of the response with answer_text "N/A"
extractInitialQuestions(questions) ==
  [i \in 1..Len(questions) |-> Put(questions[i], "answer_text", NA)]

\* classified.find(candidate => question_text equal) ?? {}
FindMatch(classified, original) ==
  LET same(i) == Coalesce(Get(classified[i], "question_text"), <<>>)
                   = Coalesce(Get(original, "question_text"), <<>>)
      hits == {i \in 1..Len(classified) : same(i)}
  IN IF hits = {} THEN <<>>
     ELSE classified[CHOOSE i \in hits : \A j \in hits : i <= j]

\* the merge loop of classifyExtractedQuestions over one batch
classifyExtractedQuestions(qnaList, classified) ==
  [i \in 1..Len(qnaList) |->
     Delete(Spread(qnaList[i], FindMatch(classified, qnaList[i])), "answer_text")]

toFinalAssessmentRow(item, row) ==
  LET techStacks == Coalesce(Get(item, "question_concept"),
                             Coalesce(Get(item, "category"),
                                      <<"U", "n", "c", "a", "t", "e", "g", "o", "r", "i", "z", "e", "d">>))
  IN <<<<"job_id", OrElse(IF Get(row, "job_id") = Undefined THEN Undefined
                          ELSE trim(Get(row, "job_id")), NA)>>,
       <<"company_name", OrElse(IF Get(row, "company_name") = Undefined THEN Undefined
                                ELSE trim(Get(row, "company_name")), NA)>>,
       <<"questions", Coalesce(Get(item, "question_text"), <<>>)>>,
       <<"question_type", Enum(Coalesce(Get(item, "question_type"),
                                        <<"A", "S", "S", "E", "S", "S", "M", "E", "N", "T">>))>>,
       <<"tech_stacks", Enum(techStacks)>>,
       <<"topic", Enum(Coalesce(Get(item, "topic"), NA))>>,
       <<"sub_topic", Enum(Coalesce(Get(item, "sub_topic"), NA))>>,
       <<"difficulty_level", Enum(Coalesce(Get(item, "difficulty"),
                                           <<"M", "E", "D", "I", "U", "M">>))>>,
       <<"curriculum_coverage", Enum(Coalesce(Get(item, "curriculum_coverage"), NA))>>,
       <<"question_uid", Uid>>,
       <<"assessment_date", OrElse(Get(row, "assessment_date"), Stamp)>>,
       <<"question_creation_datetime", Stamp>>,
       <<"product", Product>>>>

orderRows(rows) == orderByHeaders(rows, ASSESSMENT_SHEET_HEADERS)

(***************************************************************************)
(* SpecRows: the row assembly of one input item, on bounded model outputs. *)
(***************************************************************************)
Q == <<"Q">>

\* an object with the given pairs, the undefined ones left out
Obj(pairs) == SelectSeq(pairs, LAMBDA kv : kv[2] # Undefined)

\* items of an extraction response of the interview pipeline
InterviewParsed ==
  {Obj(<<<<"question_text", qt>>, <<"answer_text", at>>>>) :
     qt \in {Undefined, Q, <<" ", "Q">>, <<"R">>}, at \in {Undefined, <<"a">>}}

\* questions of an extraction response of the assessment pipeline
AssessmentParsed ==
  {Obj(<<<<"category", cat>>, <<"question_text", qt>>, <<"difficulty", df>>>>) :
     cat \in {Undefined, <<"j", "a", "v", "a">>}, qt \in {Q, <<"R">>},
     df \in {Undefined, <<"e", "a", "s", "y">>}}

\* items of a classification response
ClassifiedItems ==
  {<<<<"question_text", Q>>, <<"question_type", <<"c", "o", "d", "i", "n", "g">>>>,
     <<"question_concept", <<"s", "q", "l">>>>, <<"difficulty", <<"h", "a", "r", "d">>>>,
     <<"topic", <<"j", "o", "i", "n", "s">>>>, <<"sub_topic", <<"n", "/", "a">>>>,
     <<"relevancy_score", <<"8">>>>, <<"curriculum_coverage", <<"c", "o", "v", "e", "r", "e", "d">>>>>>,
   <<<<"question_text", <<"R">>>>, <<"question_type", <<"t", "h", "e", "o", "r", "y">>>>>>,
   <<<<"question_text", <<"Q", " ">>>>, <<"topic", <<"s", "q", "l">>>>>>}

\* input rows: every column present, or the mandatory interview_date alone
InputRows ==
  {<<<<"user_id", <<"7">>>>, <<"fullName", <<"n">>>>, <<"MobileNumber", <<"9">>>>,
     <<"job_id", <<"j">>>>, <<"company_name", <<"c">>>>, <<"interview_round", <<"r", "1">>>>,
     <<"interview_date", <<"d">>>>, <<"assessment_date", <<"d">>>>>>,
   <<<<"interview_date", <<"d">>>>>>}

RowsStart(wf, parsed, classified, row) ==
  [fn |-> "rows", wf |-> wf, pc |-> "parsed", parsed |-> parsed, classified |-> classified,
   row |-> row, extracted |-> <<>>, deduped |-> <<>>, merged |-> <<>>, rows |-> <<>>]

RowsFrame == UNCHANGED <<jobVars, pipe, sheet, chunk, chat, poll>>

\* the items of the response are taken over
ExtractStep ==
  /\ calc.fn = "rows"
  /\ calc.pc = "parsed"
  /\ calc' = [calc EXCEPT
       !.pc = "extracted",
       !.extracted = IF calc.wf = "interview" THEN extractItems(calc.parsed)
                     ELSE extractInitialQuestions(calc.parsed)]
  /\ RowsFrame

\* runQnaPipeline: deduplicateQna(raw)
DedupStep ==
  /\ calc.fn = "rows"
  /\ calc.wf = "interview"
  /\ calc.pc = "extracted"
  /\ calc' = [calc EXCEPT !.pc = "deduped", !.deduped = deduplicateQna(calc.extracted)]
  /\ RowsFrame

\* the classification response is merged into the items
MergeStep ==
  /\ calc.fn = "rows"
  /\ calc.pc = IF calc.wf = "interview" THEN "deduped" ELSE "extracted"
  /\ calc' = [calc EXCEPT
       !.pc = "merged",
       !.merged = IF calc.wf = "interview"
                  THEN IF calc.deduped = <<>> THEN <<>>
                       ELSE mergeClassification(calc.deduped, calc.classified)
                  ELSE classifyExtractedQuestions(calc.extracted, calc.classified)]
  /\ RowsFrame

\* the rows of the item, in header order
MapStep ==
  /\ calc.fn = "rows"
  /\ calc.pc = "merged"
  /\ calc' = [calc EXCEPT
       !.pc = "done",
       !.rows = IF calc.wf = "interview"
                THEN ensureHeaderOrder(mapQaToSheetRows(calc.merged, InterviewMeta(calc.row)))
                ELSE orderRows([i \in 1..Len(calc.merged) |->
                                  toFinalAssessmentRow(calc.merged[i], calc.row)])]
  /\ RowsFrame

RowsInit ==
  /\ jobs = [id \in JobIds |-> BlankJob]
  /\ poll = NoPoll
  /\ registry = {}
  /\ nextId = 1
  /\ creating = 0
  /\ runner = [id \in JobIds |-> "none"]
  /\ now = 0
  /\ ticks = 0
  /\ lastCall = NoCall
  /\ cancelRets = [id \in JobIds |-> <<>>]
  /\ cancelAsked = {}
  /\ pipe = NoPipe
  /\ sheet = <<>>
  /\ chunk = NoChunk
  /\ chat = NoChat
  /\ \E wf \in {"interview", "assessment"}, row \in InputRows,
        classified \in SeqsUpTo(ClassifiedItems, MaxClassified) :
       \E parsed \in SeqsUpTo(IF wf = "interview" THEN InterviewParsed ELSE AssessmentParsed,
                              MaxItems) :
         calc = RowsStart(wf, parsed, classified, row)

RowsNext == ExtractStep \/ DedupStep \/ MergeStep \/ MapStep

SpecRows == RowsInit /\ [][RowsNext]_vars

(***************************************************************************)
(* Claims about the row assembly, checked under SpecRows.                  *)
(***************************************************************************)
RowsAt(pcs) == calc.fn = "rows" /\ calc.pc \in pcs

RECURSIVE PickFrom(_, _, _)
PickFrom(items, keep, i) ==
  IF i > Len(items) THEN <<>>
  ELSE (IF i \in keep THEN <<items[i]>> ELSE <<>>) \o PickFrom(items, keep, i + 1)

\* the items with no earlier item of exactly the same question_text, in order
FirstOccurrences(items) ==
  PickFrom(items,
           {i \in 1..Len(items) :
              ~\E j \in 1..(i - 1) : Get(items[j], "question_text") = Get(items[i], "question_text")},
           1)

\* the source item of row i, and whether the classifier returned an item with
\* the same question_text
SourceItem(i) == IF calc.wf = "interview" THEN calc.deduped[i] ELSE calc.extracted[i]

Unmatched(i) ==
  \A c \in 1..Len(calc.classified) :
    Get(calc.classified[c], "question_text") # Get(SourceItem(i), "question_text")

TaxonomyColumns ==
  IF calc.wf = "interview"
  THEN {"question_type", "tech_stacks", "difficulty", "topic", "sub_topic",
        "relevancy_score", "curriculum_coverage"}
  ELSE {"question_type", "tech_stacks", "difficulty_level", "topic", "sub_topic",
        "curriculum_coverage"}

\* C13 (as claimed): in every workflow the output row of a source item for
\* which the classifier returned no item with the same question_text keeps the
\* item's question text and holds "N/A" in every taxonomy column.
C13_UnmatchedItemGetsNA ==
  RowsAt({"done"}) =>
    \A i \in 1..Len(calc.rows) :
      Unmatched(i) =>
        /\ Get(calc.rows[i], IF calc.wf = "interview" THEN "question_text" ELSE "questions")
             = Get(SourceItem(i), "question_text")
        /\ \A col \in TaxonomyColumns : Get(calc.rows[i], col) = NA

\* C14 (as claimed): deduplicateQna keeps exactly the items that no earlier
\* item equals in question_text, in their original order.
C14_DedupKeepsFirstOccurrences ==
  RowsAt({"deduped", "merged", "done"}) => calc.deduped = FirstOccurrences(calc.extracted)

RowHeaders == IF calc.wf = "interview" THEN SHEET_HEADERS ELSE ASSESSMENT_SHEET_HEADERS

\* every row has exactly the columns of the header list, in that order
RowsHaveHeaderColumns ==
  RowsAt({"done"}) => \A i \in 1..Len(calc.rows) : Keys(calc.rows[i]) = RowHeaders

\* C16 (as claimed): every row has exactly the columns of its workflow's header
\* list in that order, and a value absent from the input row or from the model
\* output is written as "N/A".
C16_RowsHaveDeclaredColumns ==
  RowsAt({"done"}) =>
    /\ \A i \in 1..Len(calc.rows) : Keys(calc.rows[i]) = RowHeaders
    /\ \A i \in 1..Len(calc.rows) :
         /\ Get(calc.row, "job_id") = Undefined => Get(calc.rows[i], "job_id") = NA
         /\ (calc.wf = "interview" /\ Get(calc.row, "user_id") = Undefined)
              => Get(calc.rows[i], "user_id") = NA
    /\ (calc.wf = "interview" /\ Len(calc.rows) = Len(calc.parsed)) =>
         \A i \in 1..Len(calc.rows) :
           Get(calc.parsed[i], "answer_text") = Undefined
             => Get(calc.rows[i], "answer_text") = NA
    /\ calc.wf = "assessment" =>
         \A i \in 1..Len(calc.rows) :
           Get(calc.merged[i], "difficulty") = Undefined
             => Get(calc.rows[i], "difficulty_level") = NA

(***************************************************************************)
(* The retry and key-rotation layer: aiChat of utils/aiProvider.ts and     *)
(* mistralChat of utils/mistral.ts.  SpecChat follows one chat call from   *)
(* the first request to its return or its failure.  Times are in           *)
(* thousandths of a second.  The clock stands still while a request is in  *)
(* flight; it moves with the sleeps of the throttle and of the backoff.    *)
(***************************************************************************)
MaxKeys == 2
MaxRequests == 4

\* config.ts: MISTRAL_CHAT_MIN_INTERVAL_SECONDS (1.2 s)
MISTRAL_CHAT_MIN_INTERVAL_SECONDS == 1200

\* Number(error.status ?? 0): a request that was aborted carries no status
Aborted == 0

isRetriableStatus(status) == status \in {429, 500, 502, 503, 504}

\* the statuses the provider answers with
Statuses == {200, 400, 429, 503}

\* the Retry-After header of a response: absent, seconds, or not a number
RetryAfterHeaders == {Null, <<"2">>, <<"6", "0">>, <<"s", "o", "o", "n">>}

\* Math.random(), in thousandths
Randoms == {0, 999}

\* choices[0].message.content of a 200 response
Contents == {<<"o", "k">>, Undefined}

DigitValue(c) ==
  CASE c = "0" -> 0 [] c = "1" -> 1 [] c = "2" -> 2 [] c = "3" -> 3 [] c = "4" -> 4
    [] c = "5" -> 5 [] c = "6" -> 6 [] c = "7" -> 7 [] c = "8" -> 8 [] c = "9" -> 9

RECURSIVE DigitsValue(_)
DigitsValue(s) ==
  IF s = <<>> THEN 0
  ELSE 10 * DigitsValue(SubSeq(s, 1, Len(s) - 1)) + DigitValue(s[Len(s)])

\* Number(retryAfterHeader): the value of a digit string, NaN for other text
Number(s) ==
  IF \A i \in 1..Len(s) : s[i] \in Digits
  THEN [finite |-> TRUE, n |-> DigitsValue(s)]
  ELSE [finite |-> FALSE, n |-> 0]

\* the backoff formula without its constant 0.2 s
computeRetryWaitSecondsNoFloor(attempt, retryAfterHeader, random) ==
  Min(2 ^ attempt * 1000 + (random * 7) \div 10, 30000)

\* the backoff formula without the cap of 30 s
computeRetryWaitSecondsNoCap(attempt, retryAfterHeader, random) ==
  IF /\ retryAfterHeader # Null /\ retryAfterHeader # Undefined /\ retryAfterHeader # <<>>
     /\ Number(retryAfterHeader).finite
     /\ Number(retryAfterHeader).n > 0
  THEN Number(retryAfterHeader).n * 1000
  ELSE 2 ^ attempt * 1000 + (random * 7) \div 10 + 200

\* computeRetryWaitSeconds: min(Retry-After, 30) when the header is a positive
\* number, min(2^attempt + random * 0.7 + 0.2, 30) otherwise
computeRetryWaitSeconds(attempt, retryAfterHeader, random) ==
  IF /\ retryAfterHeader # Null /\ retryAfterHeader # Undefined /\ retryAfterHeader # <<>>
     /\ Number(retryAfterHeader).finite
     /\ Number(retryAfterHeader).n > 0
  THEN Min(Number(retryAfterHeader).n * 1000, 30000)
  ELSE Min(2 ^ attempt * 1000 + (random * 7) \div 10 + 200, 30000)

\* aiProvider.ts extractChatContent, for a content that is a string or absent
extractChatContent(content) == IF content = Undefined THEN <<>> ELSE content

\* throttleMistralChat / throttleChat: sleep the shortfall to the minimum
\* interval since the last call, then stamp the call
throttle(c) ==
  LET elapsed == c.clock - c.lastCallTs
      waitSeconds == MISTRAL_CHAT_MIN_INTERVAL_SECONDS - elapsed
      woke == IF waitSeconds > 0 THEN c.clock + waitSeconds ELSE c.clock
  IN [c EXCEPT !.clock = woke,
               !.throttled = @ + (woke - c.clock),
               !.lastCallTs = woke]

\* options.maxRetries ?? MISTRAL_CHAT_MAX_RETRIES_PER_KEY
MaxRetriesOf(options) ==
  IF "maxRetries" \in DOMAIN options THEN options.maxRetries
  ELSE MISTRAL_CHAT_MAX_RETRIES_PER_KEY

\* the options of a call: the attempt limit is left to its default or given
ChatOptions == {[temperature |-> 0]} \cup
               {[temperature |-> 0, maxRetries |-> n] : n \in 1..MaxRequests}

\* the state at the top of the retry loop.  keys is the number of credentials
\* configured (runtime.rotationApiKeys for aiChat, the key list for
\* mistralChat), key the position of the one in use, sent the requests made
\* with each, log the responses so far, since the time since the last chat
\* call of the process
ChatStart(fn, provider, keys, options, since) ==
  [fn |-> fn, pc |-> "attempt", provider |-> provider, keys |-> keys,
   maxRetries |-> MaxRetriesOf(options), key |-> 1, attempt |-> 0,
   sent |-> [k \in 1..keys |-> 0], log |-> <<>>, retryAfterSeen |-> FALSE,
   wait |-> 0, slept |-> 0, throttled |-> 0, clock |-> since, lastCallTs |-> 0,
   content |-> Undefined, result |-> Undefined]

ChatFrame == UNCHANGED <<jobVars, pipe, sheet, chunk, calc, poll>>

Sent(c) == [c EXCEPT !.sent[c.key] = @ + 1, !.pc = "fetch"]

Logged(c, status, header) ==
  [c EXCEPT !.log = Append(@, [key |-> c.key, status |-> status]),
            !.retryAfterSeen = @ \/ (status # Aborted /\ status # 200 /\ header # Null)]

\* aiChat, top of the loop body: throttle for the mistral provider, then
\* executeChatRequest sends the request with runtime.apiKey
aiChatRequest ==
  /\ chat.pc = "attempt"
  /\ chat.fn = "aiChat"
  /\ chat' = Sent(IF chat.provider = "mistral" THEN throttle(chat) ELSE chat)
  /\ ChatFrame

\* aiChat: the request settled with a status, or was aborted by the timeout
aiChatResponse(status, header, content, random) ==
  /\ chat.pc = "fetch"
  /\ chat.fn = "aiChat"
  /\ chat' =
       LET c == Logged(chat, status, header) IN
       IF status = 200
       THEN [c EXCEPT !.pc = "returned", !.content = content,
                      !.result = extractChatContent(content)]
       ELSE IF ~isRetriableStatus(status) \/ c.attempt >= c.maxRetries - 1
       THEN [c EXCEPT !.pc = "threw"]
       ELSE [c EXCEPT !.pc = "sleep",
                      !.wait = computeRetryWaitSeconds(c.attempt, header, random)]
  /\ ChatFrame

\* aiChat: the backoff sleep is over, the loop goes round
aiChatSleepDone ==
  /\ chat.pc = "sleep"
  /\ chat.fn = "aiChat"
  /\ chat' = [chat EXCEPT !.pc = "attempt", !.attempt = @ + 1, !.wait = 0,
                          !.slept = @ + chat.wait, !.clock = @ + chat.wait]
  /\ ChatFrame

\* mistralChat: the loops over the keys and the attempts go round, or end
NextAttempt(c) ==
  IF c.attempt + 1 < c.maxRetries
  THEN [c EXCEPT !.pc = "attempt", !.attempt = @ + 1]
  ELSE IF c.key < c.keys
  THEN [c EXCEPT !.pc = "attempt", !.key = @ + 1, !.attempt = 0]
  ELSE [c EXCEPT !.pc = "threw"]

\* mistralChat, top of the inner loop body: throttleChat, then fetch
mistralChatRequest ==
  /\ chat.pc = "attempt"
  /\ chat.fn = "mistralChat"
  /\ chat' = Sent(throttle(chat))
  /\ ChatFrame

\* mistralChat: the request settled with a status, or was aborted.  The throw
\* for a status that is not ok is raised inside the try block, so the catch
\* block of the loop handles it like an aborted request
mistralChatResponse(status, header, content, random) ==
  /\ chat.pc = "fetch"
  /\ chat.fn = "mistralChat"
  /\ chat' =
       LET c == Logged(chat, status, header) IN
       IF isRetriableStatus(status)
       THEN [c EXCEPT !.pc = "sleep",
                      !.wait = computeRetryWaitSeconds(c.attempt, header, random)]
       ELSE IF status = 200
       THEN [c EXCEPT !.pc = "returned", !.content = content,
                      !.result = extractChatContent(content)]
       ELSE IF c.attempt < c.maxRetries - 1
       THEN [c EXCEPT !.pc = "sleep",
                      !.wait = computeRetryWaitSeconds(c.attempt, Undefined, random)]
       ELSE NextAttempt(c)
  /\ ChatFrame

\* mistralChat: the backoff sleep is over, continue
mistralChatSleepDone ==
  /\ chat.pc = "sleep"
  /\ chat.fn = "mistralChat"
  /\ chat' = NextAttempt([chat EXCEPT !.wait = 0, !.slept = @ + chat.wait,
                                      !.clock = @ + chat.wait])
  /\ ChatFrame

\* the calls followed: every attempt limit and key count whose product is
\* at most MaxRequests, and the default limit with one key
ChatConfigs ==
  {cf \in [keys : 1..MaxKeys, options : ChatOptions] :
     \/ cf.keys * MaxRetriesOf(cf.options) <= MaxRequests
     \/ cf.keys = 1 /\ "maxRetries" \notin DOMAIN cf.options}

ChatInit ==
  /\ jobs = [id \in JobIds |-> BlankJob]
  /\ poll = NoPoll
  /\ registry = {}
  /\ nextId = 1
  /\ creating = 0
  /\ runner = [id \in JobIds |-> "none"]
  /\ now = 0
  /\ ticks = 0
  /\ lastCall = NoCall
  /\ cancelRets = [id \in JobIds |-> <<>>]
  /\ cancelAsked = {}
  /\ pipe = NoPipe
  /\ sheet = <<>>
  /\ chunk = NoChunk
  /\ calc = NoCalc
  /\ \E cf \in ChatConfigs, since \in {0, MISTRAL_CHAT_MIN_INTERVAL_SECONDS} :
       \/ chat = ChatStart("mistralChat", "mistral", cf.keys, cf.options, since)
       \/ chat = ChatStart("aiChat", "mistral", cf.keys, cf.options, since)
       \/ cf.keys = 1 /\ chat = ChatStart("aiChat", "openai", 1, cf.options, since)

ChatNext ==
  \/ aiChatRequest
  \/ \E status \in Statuses \cup {Aborted}, header \in RetryAfterHeaders,
        content \in Contents, random \in Randoms :
       aiChatResponse(status, header, content, random)
  \/ aiChatSleepDone
  \/ mistralChatRequest
  \/ \E status \in Statuses \cup {Aborted}, header \in RetryAfterHeaders,
        content \in Contents, random \in Randoms :
       mistralChatResponse(status, header, content, random)
  \/ mistralChatSleepDone

SpecChat == ChatInit /\ [][ChatNext]_vars

(***************************************************************************)
(* Claims about the retry layer, checked under SpecChat                    *)
(***************************************************************************)
ChatOver == chat.pc \in {"returned", "threw"}

LastStatus == chat.log[Len(chat.log)].status

LastKey == chat.log[Len(chat.log)].key

StatusesAnswered == [i \in 1..Len(chat.log) |-> chat.log[i].status]

Transient(status) == isRetriableStatus(status) \/ status = Aborted

\* C17 (as claimed): a chat call makes at most N requests per credential, sends
\* a request again on a credential only after a response with status 429, 500,
\* 502, 503 or 504, and a response with any other non-success status fails the
\* call without a further attempt.
C17_RetryOnlyOnRetriableStatus ==
  chat.pc # "none" =>
    /\ \A k \in 1..chat.keys : chat.sent[k] <= chat.maxRetries
    /\ \A i \in 1..(Len(chat.log) - 1) :
         (chat.log[i].key = chat.log[i + 1].key /\ chat.log[i].status # Aborted)
           => isRetriableStatus(chat.log[i].status)
    /\ \A i \in 1..Len(chat.log) :
         (chat.log[i].status # 200 /\ ~Transient(chat.log[i].status))
           => (i = Len(chat.log) /\ chat.pc = "threw")

\* C18 (as claimed): when the provider answers 429, 429, 200 in sequence, the
\* chat call returns the content of the 200 response after exactly 2 retries
\* (3 requests), and the total backoff slept is between (1 + 0.2) + (2 + 0.2)
\* and (1 + 0.9) + (2 + 0.9) seconds.
C18_TwoRetriesWithinBounds ==
  (ChatOver /\ StatusesAnswered = <<429, 429, 200>>) =>
    /\ chat.pc = "returned"
    /\ chat.content # Undefined => chat.result = chat.content
    /\ chat.sent[1] = 3
    /\ chat.slept >= 1200 + 2200
    /\ chat.slept <= 1900 + 2900

\* C18 (amended): when the provider answers 429, 429, 200 in sequence to the
\* requests of aiChat and no response carries a Retry-After header, aiChat
\* returns the content of the 200 response (the empty string when it has none)
\* after exactly 2 retries (3 requests), and the total backoff slept is between
\* (1 + 0.2) + (2 + 0.2) and (1 + 0.9) + (2 + 0.9) seconds.
C18_TwoRetriesWithinBoundsNoHeader ==
  (chat.pc # "none" /\ chat.fn = "aiChat" /\ ChatOver /\ ~chat.retryAfterSeen
     /\ StatusesAnswered = <<429, 429, 200>>) =>
    /\ chat.pc = "returned"
    /\ chat.result = (IF chat.content = Undefined THEN <<>> ELSE chat.content)
    /\ chat.sent[1] = 3
    /\ chat.slept >= 1200 + 2200
    /\ chat.slept <= 1900 + 2900

C18_Witness ==
  /\ chat.pc = "returned"
  /\ chat.fn = "aiChat"
  /\ ~chat.retryAfterSeen
  /\ StatusesAnswered = <<429, 429, 200>>
  /\ chat.result = <<"o", "k">>
  /\ chat.slept = 1200 + 2200 + 699

\* C19 (as claimed): a request that times out is handled like a response with
\* a retryable status: the call fails on it only when the attempt limit of the
\* credential is used up.
C19_TimeoutRetriedLikeRetriable ==
  (chat.pc = "threw" /\ Len(chat.log) > 0 /\ LastStatus = Aborted)
    => chat.sent[LastKey] = chat.maxRetries

\* C20 (as claimed): a transient provider error (429, 5xx, timeout) is surfaced
\* to the caller only after the retry budget is used up on every configured
\* credential.
C20_FailsOnlyAfterAllCredentials ==
  (chat.pc = "threw" /\ Len(chat.log) > 0 /\ Transient(LastStatus))
    => \A k \in 1..chat.keys : chat.sent[k] = chat.maxRetries

(***************************************************************************)
(* Further claims about the job manager, checked under Spec                *)
(***************************************************************************)
\* C24 (as claimed): a job leaves the registry only if it is in a terminal
\* state and its last update is older than the retention window of 30
\* minutes; a queued or running job is never removed.
C24_OnlyTerminalJobsExpire ==
  [][\A id \in JobIds :
       (id \in registry /\ id \notin registry') =>
         /\ isTerminalState(jobs[id].state)
         /\ now - jobs[id].updatedAt > JOB_TTL_MS]_vars

\* C25: when the runner rejects with an error and no cancellation was
\* requested, the job (still in the registry) ends in state error, its error is
\* the string form of the failure, its message equals its error, and its result
\* stays unset.
C25_RejectionRecorded ==
  [][\A id \in JobIds, e \in Errors :
       (RunnerReject(id, e) /\ id \in registry /\ ~jobs[id].cancelRequested) =>
         /\ jobs'[id].state = "error"
         /\ jobs'[id].error = e
         /\ jobs'[id].message = jobs'[id].error
         /\ jobs'[id].result = Undef]_vars

\* the runner of a job that was never cancelled has rejected
C25_Witness ==
  \E id \in JobIds :
    /\ id \in registry
    /\ runner[id] = "settled"
    /\ ~jobs[id].cancelRequested
    /\ jobs[id].state = "error"
    /\ jobs[id].error \in Errors
    /\ jobs[id].message = jobs[id].error

\* C26 (as claimed): createJob registers the job with state queued, returns
\* that snapshot with state queued, and has started the runner, which is still
\* pending, when it returns.
C26_CreateReturnsQueued ==
  /\ creating # 0 => (creating \in registry /\ jobs[creating].state = "queued")
  /\ lastCall.op = "createJob" =>
       /\ lastCall.snap.state = "queued"
       /\ runner[lastCall.id] # "none"

(***************************************************************************)
(* Further claims about the chunking loop, checked under SpecChunk         *)
(***************************************************************************)
Stride == chunk.chunkSize - chunk.overlap

\* C28: with chunkSize 18000 and overlap 1200 a transcript of 25,000
\* characters yields exactly 2 windows; in general window i (counted from 0)
\* starts at i * (chunkSize - overlap), the cursor moves by chunkSize - overlap
\* per iteration, and every window is one extraction call.
C28_WindowStarts ==
  chunk.pc # "none" =>
    /\ \A i \in 1..Len(chunk.windows) : chunk.windows[i][1] = (i - 1) * Stride
    /\ chunk.start = (IF chunk.pc = "await" THEN Len(chunk.windows) - 1
                      ELSE Len(chunk.windows)) * Stride
    /\ (chunk.pc = "done" /\ chunk.len = 25000 /\ chunk.chunkSize = 18000
          /\ chunk.overlap = 1200) => Len(chunk.windows) = 2

\* the 25,000 character transcript was cut with the configured defaults
C28_Witness ==
  /\ chunk.pc = "done"
  /\ chunk.len = 25000
  /\ chunk.chunkSize = 18000
  /\ chunk.overlap = 1200
  /\ Len(chunk.windows) = 2
  /\ chunk.windows[2] = <<16800, 25000>>

\* C29 (as claimed): a transcript that is not empty and not longer than
\* chunkSize is submitted as exactly one window.
C29_ShortTranscriptOneWindow ==
  (chunk.pc # "none" /\ 0 < chunk.len /\ chunk.len <= chunk.chunkSize) =>
    /\ Len(chunk.windows) <= 1
    /\ chunk.pc = "done" => Len(chunk.windows) = 1

\* the raw cut of a window that starts at start
RawCut(start) == IF start + chunk.chunkSize < chunk.len THEN start + chunk.chunkSize
                 ELSE chunk.len

\* newlines at or after the raw cut, among the 200 characters that follow it
NewlinesPastCut(start) ==
  {q \in chunk.newlines : q >= RawCut(start) /\ q >= 0 /\ q - RawCut(start) < 200}

\* newlines at or after the raw cut
NewlinesFrom(start) == {q \in chunk.newlines : q >= RawCut(start) /\ q >= 0}

\* C30: the end of a window is the position of the next newline after the raw
\* cut if and only if that newline lies within the 200 characters past the
\* cut, and the raw cut otherwise; the end is never before the cut and never
\* past the end of the text.
C30_EndSnapsToNewline ==
  chunk.pc # "none" =>
    \A i \in 1..Len(chunk.windows) :
      LET start == chunk.windows[i][1]
          end == chunk.windows[i][2]
      IN /\ end >= RawCut(start)
         /\ end <= chunk.len
         /\ end # RawCut(start) =>
              /\ NewlinesPastCut(start) # {}
              /\ end \in NewlinesPastCut(start)
              /\ \A q \in NewlinesFrom(start) : end <= q
         /\ (\E q \in NewlinesPastCut(start) : \A r \in NewlinesFrom(start) : q <= r)
              => (end \in NewlinesPastCut(start) /\ \A r \in NewlinesFrom(start) : end <= r)

\* a window end moved forward to a newline 199 characters past the cut
C30_Witness ==
  /\ chunk.pc = "done"
  /\ chunk.len = 25000
  /\ chunk.newlines = {18199}
  /\ chunk.windows[1] = <<0, 18199>>

(***************************************************************************)
(* Claims about the local files of a run, checked under SpecPipe.          *)
(***************************************************************************)
\* the kinds of file a run hands to cleanupFiles: the extracted audio, the
\* transcript and the Q&A CSV, and for the video uploader the uploaded source
\* video
InCleanupList(kind) ==
  \/ kind \in {"audio", "transcript", "csv"}
  \/ pipe.wf = "uploader" /\ kind = "video"

C22_PartialDownloadRemoved ==
  pipe.pc = "done" => \A i \in pipe.downloaded : pipe.video[i] # "partial"

\* C23 (as claimed): a video is handed to audio extraction only after
\* validateVideoFile succeeded on it.
C23_ExtractionOnlyAfterValidation == pipe.extracted \subseteq pipe.validated

(***************************************************************************)
(* waitForJobCompletion of the web client.  It polls GET /jobs/:id, which  *)
(* answers with getJob(id) or with 404 when the id is not in the Map, for  *)
(* the one job the manager runs here.                                      *)
(***************************************************************************)
PollJob == 1

MaxTransientGatewayFailures == 10

\* no status fetched yet
NoStatus == BlankJob

NotFound == "{\"error\":\"Job not found.\"}"

PollStart ==
  [pc |-> "fetch", aborted |-> FALSE, transientGatewayFailures |-> 0,
   fetched |-> NoStatus, updated |-> NoStatus,
   outcome |-> "none", returned |-> Undef, thrown |-> "", rethrown |-> FALSE]

\* the call returns a value
Returns(p, result) == [p EXCEPT !.pc = "done", !.outcome = "returned", !.returned = result]

\* the call throws an error of class cls with the given message
Throws(p, cls, message) == [p EXCEPT !.pc = "done", !.outcome = cls, !.thrown = message]

\* throwIfAborted(signal), then the rest of the loop body
throwIfAborted(p, rest) ==
  IF p.aborted THEN Throws(p, "PollingAbortedError", "Polling aborted.") ELSE rest

\* sleep(pollIntervalMs, signal) is called: it rejects at once when the signal
\* is aborted already
sleep(p) == throwIfAborted(p, [p EXCEPT !.pc = "sleeping"])

\* a caller whose onUpdate is skipped for a terminal status
onUpdateNonTerminalOnly(p, status) ==
  IF isTerminalState(status.state) THEN p ELSE [p EXCEPT !.updated = status]

\* onUpdate(status)
onUpdate(p, status) == [p EXCEPT !.updated = status]

\* status.error || status.message || "Job failed."
errorText(status) ==
  IF status.error \notin {UndefStr, ""} THEN status.error
  ELSE IF status.message # "" THEN status.message
  ELSE "Job failed."

\* status.message || "Job cancelled by user."
cancelledText(status) ==
  IF status.message # "" THEN status.message ELSE "Job cancelled by user."

\* fetchJobStatus resolved with status: the loop body after the try block
statusFetched(p, status) ==
  LET p1 == onUpdate([p EXCEPT !.fetched = status, !.transientGatewayFailures = 0], status)
  IN IF status.state = "success"
     THEN IF status.result = Undef THEN Throws(p1, "Error", "Job completed without result.")
          ELSE Returns(p1, status.result)
     ELSE IF status.state = "error" THEN Throws(p1, "Error", errorText(status))
     ELSE IF status.state = "cancelled"
     THEN Throws(p1, "JobCancelledByUserError", cancelledText(status))
     ELSE sleep(p1)

\* a catch block that never gives up on transient gateway errors
fetchFailedNoLimit(p, transient, message) ==
  LET p1 == IF transient THEN [p EXCEPT !.transientGatewayFailures = @ + 1] ELSE p
  IN IF transient THEN sleep(p1)
     ELSE [Throws(p1, "Error", message) EXCEPT !.rethrown = TRUE]

\* fetchJobStatus rejected: the catch block; transient says
\* isTransientGatewayError(error)
fetchFailed(p, transient, message) ==
  LET p1 == IF transient THEN [p EXCEPT !.transientGatewayFailures = @ + 1] ELSE p
  IN IF transient /\ p1.transientGatewayFailures <= MaxTransientGatewayFailures
     THEN sleep(p1)
     ELSE [Throws(p1, "Error", message) EXCEPT !.rethrown = TRUE]

PollFrame == UNCHANGED <<jobVars, pipe, sheet, chunk, chat, calc>>

\* waitForJobCompletion(jobId, onUpdate, pollIntervalMs, options) is called with
\* the id createJob returned; aborted: the signal is aborted already
waitForJobCompletion(aborted) ==
  /\ poll.pc = "none"
  /\ creating = 0
  /\ PollJob < nextId
  /\ poll' = throwIfAborted([PollStart EXCEPT !.aborted = aborted], PollStart)
  /\ PollFrame

\* the caller aborts the signal; a sleep in progress rejects
Abort ==
  /\ poll.pc \in {"fetch", "sleeping"}
  /\ ~poll.aborted
  /\ poll' = LET p1 == [poll EXCEPT !.aborted = TRUE]
             IN IF poll.pc = "sleeping" THEN Throws(p1, "PollingAbortedError", "Polling aborted.")
                ELSE p1
  /\ PollFrame

\* the request of fetchJobStatus is served by the route of GET /jobs/:id and
\* its response is handled
FetchResponse ==
  /\ poll.pc = "fetch"
  /\ Idle
  /\ LET reg == cleanupExpiredJobs(registry, jobs, now)
         js == CleanedJobs(registry, jobs, now)
     IN /\ registry' = reg
        /\ jobs' = js
        /\ lastCall' = [op |-> "getJob", id |-> PollJob, found |-> PollJob \in reg,
                        snap |-> js[PollJob]]
        /\ poll' = IF PollJob \in reg THEN statusFetched(poll, js[PollJob])
                   ELSE fetchFailed(poll, FALSE, NotFound)
  /\ UNCHANGED <<nextId, creating, runner, now, ticks, cancelRets, cancelAsked, pipe, sheet,
                 chunk, chat, calc>>

\* the request of fetchJobStatus fails before the backend answers: a gateway
\* error of the proxy (transient) or a timeout of the request
FetchFails(transient) ==
  /\ poll.pc = "fetch"
  /\ poll' = fetchFailed(poll, transient,
                         IF transient THEN "504 Gateway Time-out"
                         ELSE "Error: Request timed out after 30s")
  /\ PollFrame

\* the timer of sleep fires: the loop goes round
SleepDone ==
  /\ poll.pc = "sleeping"
  /\ poll' = throwIfAborted(poll, [poll EXCEPT !.pc = "fetch"])
  /\ PollFrame

PollInit == Init

PollNext ==
  \/ CreateJob /\ nextId = PollJob
  \/ StartJob
  \/ cancelJob(PollJob)
  \/ \E m \in Messages : RunnerUpdate(PollJob, m, NoPayload)
  \/ \E r \in Results : RunnerResolve(PollJob, r)
  \/ \E e \in Errors : RunnerReject(PollJob, e)
  \/ RunnerThrowIfCancelled(PollJob)
  \/ Tick
  \/ \E aborted \in BOOLEAN : waitForJobCompletion(aborted)
  \/ Abort
  \/ FetchResponse
  \/ \E transient \in BOOLEAN : FetchFails(transient)
  \/ SleepDone

SpecPoll == PollInit /\ [][PollNext]_vars

\* timers fire and requests settle (fetchWithTimeout bounds each request)
FairSpecPoll ==
  /\ SpecPoll
  /\ WF_vars(SleepDone)
  /\ WF_vars(FetchResponse \/ \E transient \in BOOLEAN : FetchFails(transient))

(***************************************************************************)
(* Claims about the poller, checked under SpecPoll and FairSpecPoll.       *)
(***************************************************************************)
\* how a call that observed a terminal status ends
EndsByStatus ==
  \/ /\ poll.fetched.state = "success"
     /\ poll.outcome = "returned" /\ poll.returned = poll.fetched.result
  \/ /\ poll.fetched.state = "error"
     /\ poll.outcome = "Error" /\ poll.thrown = errorText(poll.fetched) /\ ~poll.rethrown
  \/ /\ poll.fetched.state = "cancelled"
     /\ poll.outcome = "JobCancelledByUserError"

\* C27 (as claimed): a call of waitForJobCompletion ends only after it fetched
\* a terminal status, and then by returning the result (success), throwing an
\* Error (error) or throwing JobCancelledByUserError (cancelled).
C27_EndsOnlyOnTerminalStatus == poll.pc = "done" => EndsByStatus

\* every status fetched was passed to onUpdate; the call goes on only while the
\* last status is not terminal; it ends by the terminal status it fetched, or
\* without one by an abort or by a failure of fetchJobStatus
PollSafety ==
  /\ poll.pc # "none" => poll.updated = poll.fetched
  /\ poll.pc \in {"fetch", "sleeping"} => ~isTerminalState(poll.fetched.state)
  /\ poll.pc = "done" =>
       \/ EndsByStatus
       \/ /\ ~isTerminalState(poll.fetched.state)
          /\ \/ poll.outcome = "PollingAbortedError" /\ poll.aborted
             \/ poll.outcome = "Error" /\ poll.rethrown

\* C27 (amended): unless its signal is aborted or fetchJobStatus fails,
\* waitForJobCompletion keeps polling until it fetches a terminal status; it
\* calls onUpdate with every status it fetches, the terminal one included;
\* on a terminal status it returns the result (success), throws an Error
\* (error) or throws JobCancelledByUserError (cancelled).
C27_PollsUntilTerminal ==
  /\ []PollSafety
  /\ [](poll.pc = "sleeping" => <>(poll.pc \in {"fetch", "done"}))
  /\ [](poll.pc = "fetch" => <>(poll.pc \in {"sleeping", "done"}))

\* the call went round the loop on a running status and then returned the
\* result of the success status, which onUpdate received
C27_Witness ==
  /\ poll.pc = "done"
  /\ poll.outcome = "returned"
  /\ poll.returned \in Results
  /\ poll.updated.state = "success"
  /\ ticks > 0

(***************************************************************************)
(* computeRetryWaitSeconds on its own: SpecBackoff draws an attempt        *)
(* number, a Retry-After header and a value of Math.random(), and applies  *)
(* the function.  Times are in thousandths of a second.                    *)
(***************************************************************************)
MaxAttempt == 6

\* the manager holds no job: the state of the variables a specification of one
\* function does not use
ManagerAtRest ==
  /\ jobs = [id \in JobIds |-> BlankJob]
  /\ registry = {}
  /\ nextId = 1
  /\ creating = 0
  /\ runner = [id \in JobIds |-> "none"]
  /\ now = 0
  /\ ticks = 0
  /\ lastCall = NoCall
  /\ cancelRets = [id \in JobIds |-> <<>>]
  /\ cancelAsked = {}

\* response.headers.get("Retry-After"): absent, not passed, seconds, zero, or
\* text that is no number
WaitHeaders ==
  {Null, Undefined, <<"2">>, <<"3", "0">>, <<"6", "0">>, <<"0">>, <<"s", "o", "o", "n">>}

WaitRandoms == {0, 500, 999}

computeRetryWaitSecondsCall ==
  /\ calc.fn = "wait"
  /\ calc.pc = "call"
  /\ calc' = [calc EXCEPT !.pc = "done",
                          !.out = computeRetryWaitSeconds(calc.attempt, calc.retryAfterHeader,
                                                          calc.random)]
  /\ UNCHANGED <<jobVars, pipe, sheet, chunk, chat, poll>>

BackoffInit ==
  /\ ManagerAtRest
  /\ pipe = NoPipe
  /\ sheet = <<>>
  /\ chunk = NoChunk
  /\ chat = NoChat
  /\ poll = NoPoll
  /\ \E attempt \in 0..MaxAttempt, header \in WaitHeaders, random \in WaitRandoms :
       calc = [fn |-> "wait", pc |-> "call", attempt |-> attempt,
               retryAfterHeader |-> header, random |-> random, out |-> 0]

BackoffNext == computeRetryWaitSecondsCall

SpecBackoff == BackoffInit /\ [][BackoffNext]_vars

(***************************************************************************)
(* Claims about the backoff wait, checked under SpecBackoff.               *)
(***************************************************************************)
\* the header is a number above 0, written in digits
PositiveNumeric(header) ==
  /\ header # <<>>
  /\ \A i \in 1..Len(header) : header[i] \in Digits
  /\ \E i \in 1..Len(header) : header[i] # "0"

\* C34: a backoff wait is min(Retry-After, 30) seconds when a positive numeric
\* Retry-After header is given, and min(2^attempt + jitter + 0.2, 30) seconds
\* with a jitter in [0, 0.7) otherwise; so it is positive and at most 30
\* seconds for every attempt number.
C34_WaitWithinBounds ==
  (calc.fn = "wait" /\ calc.pc = "done") =>
    /\ calc.out > 0
    /\ calc.out <= 30000
    /\ IF PositiveNumeric(calc.retryAfterHeader)
       THEN calc.out = Min(DigitsValue(calc.retryAfterHeader) * 1000, 30000)
       ELSE \E jitter \in 0..699 :
              calc.out = Min(2 ^ calc.attempt * 1000 + jitter + 200, 30000)

\* the exponential term alone is above 30 seconds and the wait is the cap
C34_Witness ==
  /\ calc.fn = "wait"
  /\ calc.pc = "done"
  /\ calc.attempt = 5
  /\ calc.retryAfterHeader = Null
  /\ calc.out = 30000

(***************************************************************************)
(* Claims about cleanup and the cancel flag, checked under Spec.           *)
(***************************************************************************)
\* a step is a call of createJob, getJob or cancelJob
ManagerCall == CreateJob \/ \E id \in JobIds : getJob(id) \/ cancelJob(id)

C37_FlagIffCancelled ==
  \A id \in registry : jobs[id].cancelRequested <=> jobs[id].state = "cancelled"

\* a job is cancelled, its flag is set, and its runner has settled since
C37_Witness ==
  \E id \in registry :
    /\ jobs[id].cancelRequested
    /\ jobs[id].state = "cancelled"
    /\ runner[id] = "settled"

(***************************************************************************)
(* Claims about the sink write, checked under SpecPipe.                    *)
(***************************************************************************)
\* C38 (as claimed): a job that ends in state cancelled has appended no rows
\* to the spreadsheet sink, also when the cancel request arrives while the
\* sink write is in flight.
C38_CancelledJobWroteNothing ==
  (PipeFinished /\ PipeState = "cancelled") => sheet = <<>>

\* the local files of the run are as they were
FilesUntouched ==
  /\ pipe'.files = pipe.files
  /\ pipe'.video = pipe.video
  /\ pipe'.deleted = pipe.deleted

\* C39 (as claimed): when appendRowsWithHeaders returns false, the pipeline
\* returns all its rows with savedToSheet = false, the job ends in success,
\* and no local file of the run is deleted.
C39_FailedSinkWriteIsSuccess ==
  [][SinkDone(FALSE) =>
       /\ jobs'[PipeJob].state = "success"
       /\ jobs'[PipeJob].result = [rows |-> pipe.finalRows, savedToSheet |-> FALSE]
       /\ FilesUntouched]_vars

\* C39 (amended): when appendRowsWithHeaders returns false, the pipeline
\* returns all its rows with savedToSheet = false and no local file of the run
\* is deleted; the job ends in success with that result, or in cancelled,
\* without a result, when cancelJob was called before the runner returned.
C39_FailedSinkWriteDoesNotFail ==
  [][SinkDone(FALSE) =>
       /\ runner'[PipeJob] = "settled"
       /\ pipe'.finalRows = pipe.finalRows /\ pipe.finalRows # <<>>
       /\ sheet' = sheet
       /\ FilesUntouched
       /\ IF jobs[PipeJob].cancelRequested
          THEN jobs'[PipeJob].state = "cancelled" /\ jobs'[PipeJob].result = Undef
          ELSE /\ jobs'[PipeJob].state = "success"
               /\ jobs'[PipeJob].result = [rows |-> pipe.finalRows, savedToSheet |-> FALSE]
               /\ jobs'[PipeJob].error = UndefStr]_vars

\* the sink write of an interview run failed: the job ended in success with
\* its rows unsaved and the staging files still on disk
C39_Witness ==
  /\ PipeFinished
  /\ pipe.wf = "interview"
  /\ PipeState = "success"
  /\ jobs[PipeJob].result = [rows |-> pipe.finalRows, savedToSheet |-> FALSE]
  /\ pipe.finalRows # <<>>
  /\ sheet = <<>>
  /\ {File(1, "audio"), File(1, "transcript"), File(1, "csv")} \subseteq pipe.files

(***************************************************************************)
(* Claims about failed status fetches, checked under SpecPoll.             *)
(***************************************************************************)
\* the call has just rethrown the failure of fetchJobStatus
Rethrows(message) ==
  /\ poll'.pc = "done"
  /\ poll'.outcome = "Error"
  /\ poll'.rethrown
  /\ poll'.thrown = message

\* the call has just called sleep, which rejects when the signal is aborted
Sleeps ==
  IF poll.aborted THEN poll'.pc = "done" /\ poll'.outcome = "PollingAbortedError"
  ELSE poll'.pc = "sleeping"

\* C40: on a transient gateway failure of the status fetch the call sleeps and
\* polls again as long as it is at most the 10th in a row, and rethrows the
\* 11th; a fetch that succeeds sets the count back to 0; a failure that is not
\* transient, the 404 of the backend included, is rethrown at once.
C40_TenTransientFailuresTolerated ==
  [][/\ FetchFails(TRUE) =>
          /\ poll'.transientGatewayFailures = poll.transientGatewayFailures + 1
          /\ IF poll.transientGatewayFailures < 10 THEN Sleeps /\ ~poll'.rethrown
             ELSE Rethrows("504 Gateway Time-out")
     /\ FetchFails(FALSE) => Rethrows("Error: Request timed out after 30s")
     /\ FetchResponse =>
          IF PollJob \in cleanupExpiredJobs(registry, jobs, now)
          THEN poll'.transientGatewayFailures = 0 /\ ~poll'.rethrown
          ELSE Rethrows(NotFound)
     /\ (poll.pc = "sleeping" /\ poll'.pc # "sleeping") =>
          \/ poll'.pc = "fetch" /\ poll'.transientGatewayFailures = poll.transientGatewayFailures
          \/ poll'.outcome = "PollingAbortedError"]_vars

\* the 11th transient gateway failure in a row was rethrown
C40_Witness ==
  /\ poll.pc = "done"
  /\ poll.rethrown
  /\ poll.transientGatewayFailures = 11
  /\ poll.thrown = "504 Gateway Time-out"

(***************************************************************************)
(* SpecRotation: the two round-robin counters. chatKeyIndex is module      *)
(* state of mistral.ts, runtimeIndex is local to one runDrilldown call.    *)
(* A key is modelled by its position in the configured list, from 0.       *)
(***************************************************************************)
MaxPool == 3
MaxCalls == 6

\* no key to choose from
NoKey == 0 - 1

\* getMistralChatKeys(): the configured keys, n of them
ConfiguredKeys(n) == [i \in 1..n |-> i - 1]

\* a rotation that never advances the index
getRotatedChatKeysStuck(keys, chatKeyIndex) ==
  [rotated |-> keys, chatKeyIndex |-> chatKeyIndex]

\* the rotated key list and the index after the call
getRotatedChatKeys(keys, chatKeyIndex) ==
  IF Len(keys) = 0 THEN [rotated |-> <<>>, chatKeyIndex |-> chatKeyIndex]
  ELSE LET offset == chatKeyIndex % Len(keys)
           rotated == IF offset > 0
                      THEN SubSeq(keys, offset + 1, Len(keys)) \o SubSeq(keys, 1, offset)
                      ELSE keys
       IN [rotated |-> rotated, chatKeyIndex |-> chatKeyIndex + 1]

\* getRuntimeProviderConfig: the runtime of the selected provider
baseRuntime(provider, keys) ==
  [provider |-> provider, apiKey |-> 0,
   rotationApiKeys |-> IF provider = "mistral" THEN keys ELSE <<0>>]

\* the pool of runtimes a drilldown run rotates over
runtimePool(base) ==
  IF base.provider = "mistral"
  THEN IF Len(base.rotationApiKeys) = 0 THEN <<base>>
       ELSE [i \in 1..Len(base.rotationApiKeys) |->
               [base EXCEPT !.apiKey = base.rotationApiKeys[i]]]
  ELSE <<base>>

\* the runtime of the next round and the index after the call
takeRoundRuntime(pool, runtimeIndex) ==
  [runtime |-> pool[(runtimeIndex % Len(pool)) + 1], runtimeIndex |-> runtimeIndex + 1]

\* one call of getRotatedChatKeys; firstChoices records the key tried first
getRotatedChatKeysCall ==
  /\ calc.fn = "rotation"
  /\ Len(calc.firstChoices) < MaxCalls
  /\ LET r == getRotatedChatKeys(calc.keys, calc.chatKeyIndex)
     IN calc' = [calc EXCEPT
          !.chatKeyIndex = r.chatKeyIndex,
          !.firstChoices = Append(@, IF r.rotated = <<>> THEN NoKey ELSE Head(r.rotated))]
  /\ UNCHANGED <<jobVars, pipe, sheet, chunk, chat, poll>>

\* one analyzed round of the drilldown run; roundKeys records the key it uses
takeRoundRuntimeCall ==
  /\ calc.fn = "rotation"
  /\ Len(calc.roundKeys) < MaxCalls
  /\ LET r == takeRoundRuntime(runtimePool(baseRuntime(calc.provider, calc.keys)),
                               calc.runtimeIndex)
     IN calc' = [calc EXCEPT
          !.runtimeIndex = r.runtimeIndex,
          !.roundKeys = Append(@, r.runtime.apiKey)]
  /\ UNCHANGED <<jobVars, pipe, sheet, chunk, chat, poll>>

RotationInit ==
  /\ ManagerAtRest
  /\ pipe = NoPipe
  /\ sheet = <<>>
  /\ chunk = NoChunk
  /\ chat = NoChat
  /\ poll = NoPoll
  /\ \E n \in 0..MaxPool, provider \in {"mistral", "openai"} :
       calc = [fn |-> "rotation", keys |-> ConfiguredKeys(n), provider |-> provider,
               chatKeyIndex |-> 0, runtimeIndex |-> 0,
               firstChoices |-> <<>>, roundKeys |-> <<>>]

RotationNext == getRotatedChatKeysCall \/ takeRoundRuntimeCall

SpecRotation == RotationInit /\ [][RotationNext]_vars

\* C33: with n keys configured the k-th call (from 0) has key k mod n as its
\* first choice, any n calls in a row have every key as first choice exactly
\* once, and the k-th analyzed round of a drilldown run uses key k mod n of
\* its pool.
C33_RoundRobin ==
  calc.fn = "rotation" =>
    LET n == Len(calc.keys)
        pool == runtimePool(baseRuntime(calc.provider, calc.keys))
    IN /\ n > 0 =>
            /\ \A k \in 0..(Len(calc.firstChoices) - 1) :
                 calc.firstChoices[k + 1] = calc.keys[(k % n) + 1]
            /\ \A s \in 0..(Len(calc.firstChoices) - n) :
                 /\ {calc.firstChoices[s + i] : i \in 1..n} = Range(calc.keys)
                 /\ \A i, j \in 1..n :
                      calc.firstChoices[s + i] = calc.firstChoices[s + j] => i = j
       /\ \A k \in 0..(Len(calc.roundKeys) - 1) :
            calc.roundKeys[k + 1] = pool[(k % Len(pool)) + 1].apiKey

\* three keys: five calls and four rounds have gone round the keys
C33_Witness ==
  /\ calc.fn = "rotation"
  /\ calc.provider = "mistral"
  /\ calc.firstChoices = <<0, 1, 2, 0, 1>>
  /\ calc.roundKeys = <<0, 1, 2, 0>>

(***************************************************************************)
(* SpecWorkers: the logical workers of one runDrilldown call and the row   *)
(* cursor they share. A step runs a worker from one await to the next.     *)
(***************************************************************************)
MaxWorkers == 3
MaxTotalRows == 3

\* the null of takeNextRowIndex: no row left
NoRow == 0 - 1

\* a cursor test that lets one index too many through
takeNextRowIndexOffByOne(nextRowIndex, totalRows) ==
  IF nextRowIndex > totalRows THEN [rowIndex |-> NoRow, nextRowIndex |-> nextRowIndex]
  ELSE [rowIndex |-> nextRowIndex, nextRowIndex |-> nextRowIndex + 1]

\* the index claimed, or null, and the cursor after the call
takeNextRowIndex(nextRowIndex, totalRows) ==
  IF nextRowIndex >= totalRows THEN [rowIndex |-> NoRow, nextRowIndex |-> nextRowIndex]
  ELSE [rowIndex |-> nextRowIndex, nextRowIndex |-> nextRowIndex + 1]

\* Promise.all starts the workers in order, each up to its first await
MayRun(w) == calc.pc[w] = "top" \/ (calc.pc[w] = "new" /\ \A v \in 1..(w - 1) : calc.pc[v] # "new")

\* runWorker from the top of its loop to the await of analyzeCandidateRow
runWorker(w) ==
  /\ calc.fn = "workers"
  /\ w \in 1..calc.workerCount
  /\ MayRun(w)
  /\ IF calc.cancelled
     THEN calc' = [calc EXCEPT !.pc[w] = "thrown"]
     ELSE LET t == takeNextRowIndex(calc.nextRowIndex, calc.totalRows)
          IN IF t.rowIndex = NoRow
             THEN calc' = [calc EXCEPT !.pc[w] = "returned"]
             ELSE calc' = [calc EXCEPT
                    !.pc[w] = "analyzing",
                    !.nextRowIndex = t.nextRowIndex,
                    !.rowIndex[w] = t.rowIndex,
                    !.claims = Append(@, [worker |-> w, rowIndex |-> t.rowIndex])]
  /\ UNCHANGED <<jobVars, pipe, sheet, chunk, chat, poll>>

\* analyzeCandidateRow settles: the rows of the candidate, or none when it threw
analyzeCandidateRowSettles(w, ok) ==
  /\ calc.fn = "workers"
  /\ w \in 1..calc.workerCount
  /\ calc.pc[w] = "analyzing"
  /\ calc' = [calc EXCEPT
       !.pc[w] = "top",
       !.rowsByCandidateIndex = @ \cup {calc.rowIndex[w]},
       !.skippedCandidates = IF ok THEN @ ELSE @ \cup {calc.rowIndex[w]}]
  /\ UNCHANGED <<jobVars, pipe, sheet, chunk, chat, poll>>

\* cancelJob for the job of the run, between two steps of its workers
WorkersCancel ==
  /\ calc.fn = "workers"
  /\ ~calc.cancelled
  /\ \A w \in 1..calc.workerCount : calc.pc[w] # "new"
  /\ calc' = [calc EXCEPT !.cancelled = TRUE]
  /\ UNCHANGED <<jobVars, pipe, sheet, chunk, chat, poll>>

WorkersInit ==
  /\ ManagerAtRest
  /\ pipe = NoPipe
  /\ sheet = <<>>
  /\ chunk = NoChunk
  /\ chat = NoChat
  /\ poll = NoPoll
  /\ \E workerCount \in 1..MaxWorkers, totalRows \in 0..MaxTotalRows :
       calc = [fn |-> "workers", workerCount |-> workerCount, totalRows |-> totalRows,
               nextRowIndex |-> 0, cancelled |-> FALSE,
               pc |-> [w \in 1..workerCount |-> "new"],
               rowIndex |-> [w \in 1..workerCount |-> NoRow],
               claims |-> <<>>, rowsByCandidateIndex |-> {}, skippedCandidates |-> {}]

WorkersNext ==
  \/ \E w \in 1..MaxWorkers : runWorker(w)
  \/ \E w \in 1..MaxWorkers, ok \in BOOLEAN : analyzeCandidateRowSettles(w, ok)
  \/ WorkersCancel

SpecWorkers == WorkersInit /\ [][WorkersNext]_vars

\* C32: whatever the number of workers, no row index is claimed twice and
\* none outside 0..totalRows-1 is claimed; a worker that reaches the top of
\* its loop with the cursor at totalRows returns; and when all workers have
\* returned every index 0..totalRows-1 has been claimed, by one worker, once.
C32_EachRowClaimedOnce ==
  /\ [](calc.fn = "workers" =>
         /\ \A i, j \in 1..Len(calc.claims) :
              calc.claims[i].rowIndex = calc.claims[j].rowIndex => i = j
         /\ \A i \in 1..Len(calc.claims) :
              calc.claims[i].rowIndex \in 0..(calc.totalRows - 1)
         /\ (\A w \in 1..calc.workerCount : calc.pc[w] = "returned") =>
              /\ {calc.claims[i].rowIndex : i \in 1..Len(calc.claims)} = 0..(calc.totalRows - 1)
              /\ calc.rowsByCandidateIndex = 0..(calc.totalRows - 1))
  /\ [][\A w \in 1..MaxWorkers :
          (runWorker(w) /\ ~calc.cancelled) =>
            (calc'.pc[w] = "returned" <=> calc.nextRowIndex = calc.totalRows)]_vars

\* two workers have shared three rows and both have returned
C32_Witness ==
  /\ calc.fn = "workers"
  /\ calc.workerCount = 2
  /\ calc.totalRows = 3
  /\ \A w \in 1..2 : calc.pc[w] = "returned"
  /\ {calc.claims[i].worker : i \in 1..Len(calc.claims)} = {1, 2}

(***************************************************************************)
(* SpecThrottle: several chat calls of concurrent jobs in the throttle.    *)
(* lastChatCallTs is module state; the await of sleep lets other callers   *)
(* in between the read of the stamp and its write. Times are in ms.        *)
(***************************************************************************)
MaxCallers == 3
MaxClockSteps == 5

\* the grain of the clock, and Date.now() when the first caller arrives: more
\* than the minimum interval after the initial stamp of 0
ClockStep == MISTRAL_CHAT_MIN_INTERVAL_SECONDS \div 3
ClockStart == MISTRAL_CHAT_MIN_INTERVAL_SECONDS + 2 * ClockStep

\* throttleChat up to its await: a caller with no shortfall stamps the call
\* and dispatches at once, the others go to sleep for the shortfall
throttleChat(c) ==
  /\ calc.fn = "throttle"
  /\ c \in 1..calc.callers
  /\ calc.pc[c] = "idle"
  /\ LET elapsed == calc.clock - calc.lastChatCallTs
         waitSeconds == MISTRAL_CHAT_MIN_INTERVAL_SECONDS - elapsed
     IN IF waitSeconds > 0
        THEN calc' = [calc EXCEPT !.pc[c] = "sleeping", !.wakeAt[c] = calc.clock + waitSeconds]
        ELSE calc' = [calc EXCEPT !.pc[c] = "dispatched",
                                  !.lastChatCallTs = calc.clock,
                                  !.dispatches = Append(@, calc.clock)]
  /\ UNCHANGED <<jobVars, pipe, sheet, chunk, chat, poll>>

\* the sleep is over: the caller stamps the call and dispatches
throttleChatWakes(c) ==
  /\ calc.fn = "throttle"
  /\ c \in 1..calc.callers
  /\ calc.pc[c] = "sleeping"
  /\ calc.clock >= calc.wakeAt[c]
  /\ calc' = [calc EXCEPT !.pc[c] = "dispatched",
                          !.lastChatCallTs = calc.clock,
                          !.dispatches = Append(@, calc.clock)]
  /\ UNCHANGED <<jobVars, pipe, sheet, chunk, chat, poll>>

\* time passes
ThrottleClock ==
  /\ calc.fn = "throttle"
  /\ calc.clock < ClockStart + MaxClockSteps * ClockStep
  /\ calc' = [calc EXCEPT !.clock = @ + ClockStep]
  /\ UNCHANGED <<jobVars, pipe, sheet, chunk, chat, poll>>

ThrottleInit ==
  /\ ManagerAtRest
  /\ pipe = NoPipe
  /\ sheet = <<>>
  /\ chunk = NoChunk
  /\ chat = NoChat
  /\ poll = NoPoll
  /\ \E callers \in 1..MaxCallers :
       calc = [fn |-> "throttle", callers |-> callers, clock |-> ClockStart,
               lastChatCallTs |-> 0,
               pc |-> [c \in 1..callers |-> "idle"],
               wakeAt |-> [c \in 1..callers |-> 0],
               dispatches |-> <<>>]

ThrottleNext ==
  \/ \E c \in 1..MaxCallers : throttleChat(c)
  \/ \E c \in 1..MaxCallers : throttleChatWakes(c)
  \/ ThrottleClock

SpecThrottle == ThrottleInit /\ [][ThrottleNext]_vars

\* C31 (as claimed): any two consecutive dispatches are at least the minimum
\* interval apart, whatever the number of callers in the throttle.
C31_DispatchesSpaced ==
  calc.fn = "throttle" =>
    \A i \in 1..(Len(calc.dispatches) - 1) :
      calc.dispatches[i + 1] - calc.dispatches[i] >= MISTRAL_CHAT_MIN_INTERVAL_SECONDS

(***************************************************************************)
(* SpecIsolation: two jobs in flight in one registry. createJob was called *)
(* twice in one turn of the event loop; the steps of the two runners, the  *)
(* cancel requests for job A and the clock then interleave.                *)
(***************************************************************************)
JobA == 1
JobB == 2
TwoJobs == {JobA, JobB}

IsolationInit ==
  /\ jobs = [id \in TwoJobs |-> StartRecord(InitialJob(0), 0)]
  /\ registry = TwoJobs
  /\ nextId = JobB + 1
  /\ creating = 0
  /\ runner = [id \in TwoJobs |-> "pending"]
  /\ now = 0
  /\ ticks = 0
  /\ lastCall = NoCall
  /\ cancelRets = [id \in TwoJobs |-> <<>>]
  /\ cancelAsked = {}
  /\ pipe = NoPipe
  /\ sheet = <<>>
  /\ chunk = NoChunk
  /\ chat = NoChat
  /\ calc = NoCalc
  /\ poll = NoPoll

\* a step of the runner of job id: a call of its update callback, of its
\* control object, or its completion handler
JobStep(id) ==
  \/ \E msg \in Messages, p \in Payloads : RunnerUpdate(id, msg, p)
  \/ \E r \in Results : RunnerResolve(id, r)
  \/ \E e \in Errors : RunnerReject(id, e)
  \/ RunnerThrowIfCancelled(id)

IsolationNext ==
  \/ \E id \in TwoJobs : JobStep(id)
  \/ cancelJob(JobA)
  \/ Tick

SpecIsolation == IsolationInit /\ [][IsolationNext]_vars

\* C35: a step of the runner of a job (update callback, control object,
\* completion handler) leaves the record of every other job, and its place
\* in the registry, as it was.
C35_JobStepsKeepOtherRecords ==
  [][\A id \in TwoJobs :
       JobStep(id) =>
         /\ registry' = registry
         /\ \A other \in TwoJobs \ {id} : jobs'[other] = jobs[other]]_vars

\* job A has completed while job B is still running on its own messages
C35_Witness ==
  /\ DOMAIN jobs = TwoJobs
  /\ jobs[JobA].state = "success"
  /\ jobs[JobA].result \in Results
  /\ jobs[JobB].state = "running"
  /\ jobs[JobB].message \in Messages
  /\ jobs[JobB].result = Undef

====
